---- MODULE Spec2Model ----
(***************************************************************************)
(* A model of the trend crawler (crawl.py) and of the digest run           *)
(* (digest.py) that drains the store the crawler accumulates.              *)
(*                                                                         *)
(* The specifications of the module:                                      *)
(*   SpecMerge   merge_posts applied to batches of collected items         *)
(*   SpecReddit  collect_reddit: the Redlib circuit breaker, the tiered    *)
(*               fallback and the comment enrichment                       *)
(*   SpecCycle   crawl cycles (crawl.main) interleaved with digest runs    *)
(*               (digest.main) over the two persisted files                *)
(*   SpecRedlib  fetch_reddit_redlib alone, over longer subreddit lists    *)
(*   SpecSchedule crawl cycles that all run to their end: the run state    *)
(*               and the schedule of the collectors                        *)
(*   SpecDigest  one digest run, summarizer call by summarizer call        *)
(*   SpecIds     the ids the fetchers give to items, over crawl processes  *)
(*   SpecEnrich  the two comment enrichments alone, over lists of more     *)
(*               than 30 posts                                             *)
(*   SpecBreaker fetch_reddit_redlib called cycle after cycle              *)
(*   SpecRedlibLive  SpecRedlib with the call awaited to its end           *)
(*   SpecRank    load_and_rank and clear_data in one digest run, over      *)
(*               stores with more than 50 posts per source group           *)
(*   SpecGemini, SpecGeminiLive  one call of call_gemini                   *)
(***************************************************************************)
EXTENDS Integers, Sequences, FiniteSets, TLC

(***************************************************************************)
(* Bounds of the model.                                                    *)
(***************************************************************************)
\* items observed (an empty batch counts as one) over a run of SpecMerge
MaxObs == 2
\* Redlib instances of the model (REDLIB_INSTANCES lists ten)
NumInstances == 3
\* subreddits of the model (REDDIT_SUBS lists 29)
NumSubs == 5
\* comment requests answered with comments in one collect_reddit call
MaxEnriched == 1
\* crawl cycles started over a run of SpecCycle
MaxCycles == 2
\* digest runs started over a run of SpecCycle
MaxDigests == 1
\* posts load_and_rank may return in SpecDigest (it returns up to 150)
MaxLoaded == 16
\* completed crawl cycles over a run of SpecSchedule: three periods and one
MaxCompleted == 25
\* crawl processes started over a run of SpecIds
MaxRuns == 2
\* variants of the scores of the stored posts in SpecRank
MaxShift == 3
\* subreddits fetch_reddit_redlib is given in SpecRedlib: room for two
\* instance switches and a fetch after the second
MaxSubreddits == 7

(***************************************************************************)
(* Program constants.                                                      *)
(***************************************************************************)
\* REDDIT_EVERY_N
RedditEveryN == 8
\* BATCH_SIZE of classify_and_summarize
BatchSize == 15
\* c["body"][:50], the key merge_posts deduplicates comments by
PrefixLen == 50
\* merged_comments[:3]
TopN == 3
\* comments[:3] in fetch_reddit_comments_pullpush / _direct
FetchTopN == 3
\* MAX_PER_GROUP of load_and_rank
MaxPerGroup == 50
\* max_retries of call_gemini
MaxRetries == 3
\* max_consecutive_fails in fetch_reddit_redlib
MaxConsecutiveFails == 3
\* limit_per_sub=8 in collect_reddit's call of fetch_reddit_redlib
LimitPerSub == 8
\* scored[:30] in _enrich_comments, reddit_posts[:30] in _enrich_comments_api
EnrichTop == 30
\* chunk_size in fetch_reddit_rss_multi
ChunkSize == 6

VARIABLES
    \* ---- SpecMerge ----
    store,          \* the dict merge_posts works on: [posts, last_crawl]
    prevStore,      \* the store as it was before the last merge_posts call
    lastBatch,      \* new_posts of the last merge_posts call
    nObs,           \* items observed so far
    clock,          \* datetime.now() as a counter of merge_posts calls
    \* ---- SpecReddit: collect_reddit and what it calls ----
    rpc,                    \* where collect_reddit stands
    subreddits,             \* fetch_reddit_redlib: how many subreddits it was given
    pacedSince,             \* per Redlib instance: requested? slept since the request?
    inst_i,                 \* the instance a probe loop has come to
    working,                \* fetch_reddit_redlib: the instance in use
    remaining_instances,    \* fetch_reddit_redlib: the fallback instances
    consecutive_fails,
    success,
    sub_i,                  \* the subreddit a loop over REDDIT_SUBS has come to
    all_posts,              \* the list a collecting loop builds
    redlib_posts,           \* collect_reddit: what fetch_reddit_redlib returned
    use_pullpush,
    api_available,
    stage,                  \* fetch_reddit: the strategy about to be requested
    top,                    \* enrichment: positions of the posts to enrich
    enr_i,                  \* enrichment: the place in top
    rss_sub,                \* fetch_reddit_rss_multi: subreddit fetched alone
    result,                 \* what collect_reddit returned
    \* records of the calls made, for the properties
    respLog,                \* every Redlib subreddit fetch: [sub, inst, n]
    listingCalls,           \* <<strategy, "probe" | "target", answered>>
    targetCalls,            \* API and feed requests: <<strategy, subreddit, answered>>
    commentCalls,           \* <<strategy, position of the post>>
    probeLog,               \* the Redlib probes in order: instance, answer, in a switch
    nSwitches,              \* instance switches made
    exhausted,              \* no fallback instance answered a switch
    enriched,               \* comment requests answered with comments
    raised,                 \* place in top of the comment request that raised, or 0
    produced                \* the items the per-target API and feed requests returned

mergeVars == <<store, prevStore, lastBatch, nObs, clock>>

redditVars == <<rpc, pacedSince, subreddits, inst_i, working, remaining_instances, consecutive_fails,
                success, sub_i, all_posts, redlib_posts, use_pullpush,
                api_available, stage, top, enr_i, result, respLog, listingCalls,
                targetCalls, commentCalls, probeLog, nSwitches, exhausted, enriched, raised,
                rss_sub, produced>>

VARIABLES
    \* ---- crawl.main and digest.main over the persisted files (SpecCycle) ----
    postsFile,              \* posts.json: [status, data]
    stateFile,              \* crawl_state.json: [status, data]
    cpc,                    \* crawl.main: the step it has come to
    c_state,                \* crawl.main: what load_state returned
    c_new_posts,            \* crawl.main: what collect_all returned
    c_existing,             \* crawl.main: what load_existing returned
    c_merged,               \* crawl.main: what merge_posts returned
    dpc,                    \* digest.main: the step it has come to
    d_posts,                \* digest.main: the ids load_and_rank returned
    \* records for the properties
    sent,                   \* the ids sent to Discord
    storeAtStart,           \* posts.json when the crawl cycle started
    stateAtStart,           \* crawl_state.json when the crawl cycle started
    loadFailed,             \* load_existing found posts.json unreadable
    storeWrites,            \* how many times posts.json was opened for writing
    cReadAt,                \* storeWrites when crawl.main read posts.json
    dReadAt,                \* storeWrites when digest.main read posts.json
    nCycles,                \* crawl cycles started
    nDigests                \* digest runs started

cycleVars == <<postsFile, stateFile, cpc, c_state, c_new_posts, c_existing,
               c_merged, dpc, d_posts, sent, storeAtStart, stateAtStart, loadFailed, storeWrites,
               cReadAt, dReadAt, nCycles, nDigests>>

VARIABLES
    \* ---- digest.main, with the batches of the summarizer (SpecDigest) ----
    gpc,                    \* digest.main: the step it has come to
    stored,                 \* the posts in posts.json, numbered
    loaded,                 \* what load_and_rank returned
    selected_posts,         \* classify_and_summarize: the posts classified
    batch_start,            \* classify_and_summarize: 0-based start of the batch
    all_final,              \* classify_and_summarize: the posts summarized
    \* records for the properties
    delivered,              \* the posts sent to Discord
    failures,               \* summarizer calls that failed or did not parse
    cleared                 \* clear_data was called

VARIABLES
    \* ---- crawl.main, cycle after cycle without interruption (SpecSchedule) ----
    spc,                    \* crawl.main: the step it has come to
    schedFile,              \* the content of crawl_state.json
    s_state,                \* main: state
    s_run_reddit,           \* main: run_reddit
    s_new_posts,            \* main: new_posts
    s_calls,                \* the collectors collect_all called in this cycle
    \* records for the properties
    cycleLog                \* per completed cycle: run_count loaded, collectors called

schedVars == <<spc, schedFile, s_state, s_run_reddit, s_new_posts, s_calls, cycleLog>>

digestVars == <<gpc, stored, loaded, selected_posts, batch_start, all_final,
                delivered, failures, cleared>>

VARIABLES
    \* ---- item ids over process invocations (SpecIds) ----
    ipc,                    \* a crawl process is "running" or "stopped"
    str_hash,               \* the running process's hash(link) % 10**10, per link
    idLog,                  \* records: the content fetched, by what, the id given to it
    nRuns                   \* processes started

idVars == <<ipc, str_hash, idLog, nRuns>>

VARIABLES
    \* ---- load_and_rank inside a digest run (SpecRank) ----
    kpc,                    \* position in digest.main
    rk_file,                \* posts.json: status and the posts in the order of the dict
    rk_input,               \* the posts load_and_rank read
    rk_posts,               \* posts = load_and_rank()
    rk_erased               \* the posts clear_data removed from posts.json

rankVars == <<kpc, rk_file, rk_input, rk_posts, rk_erased>>

VARIABLES
    \* ---- one call of call_gemini (SpecGemini) ----
    qpc,                    \* "idle", "request", "returned" or "raised"
    attempt,                \* the loop variable of for attempt in range(max_retries)
    responses,              \* what each request was answered with, in order
    text_out                \* the string call_gemini returned

geminiVars == <<qpc, attempt, responses, text_out>>

VARIABLES
    \* ---- fetch_reddit_redlib called cycle after cycle (SpecBreaker) ----
    earlier                 \* how the call before this one ended, if there was one

breakerVars == <<earlier>>

vars == <<mergeVars, redditVars, cycleVars, digestVars, schedVars, idVars,
          rankVars, geminiVars, breakerVars>>

\* what the steps of one specification leave alone
notMerge == <<redditVars, cycleVars, digestVars, schedVars, idVars, rankVars, geminiVars,
    breakerVars>>
notReddit == <<mergeVars, cycleVars, digestVars, schedVars, idVars, rankVars, geminiVars,
    breakerVars>>
notCycle == <<mergeVars, redditVars, digestVars, schedVars, idVars, rankVars, geminiVars,
    breakerVars>>
notDigest == <<mergeVars, redditVars, cycleVars, schedVars, idVars, rankVars, geminiVars,
    breakerVars>>
notSched == <<mergeVars, redditVars, cycleVars, digestVars, idVars, rankVars, geminiVars,
    breakerVars>>
notIds == <<mergeVars, redditVars, cycleVars, digestVars, schedVars, rankVars, geminiVars,
    breakerVars>>
notRank == <<mergeVars, redditVars, cycleVars, digestVars, schedVars, idVars, geminiVars,
    breakerVars>>
notGemini == <<mergeVars, redditVars, cycleVars, digestVars, schedVars, idVars, rankVars,
    breakerVars>>
notBreaker == <<mergeVars, cycleVars, digestVars, schedVars, idVars, rankVars, geminiVars>>

Max(a, b) == IF a >= b THEN a ELSE b
Min(a, b) == IF a <= b THEN a ELSE b

(***************************************************************************)
(* Comments.  A comment is [body, score]; the body is kept by name and     *)
(* BodyText gives its characters, so that body[:50] is computed and two    *)
(* different bodies can share their first 50 characters.                   *)
(***************************************************************************)
Pad(ch, n) == [i \in 1..n |-> ch]

BodyText(b) ==
    CASE b = "q1" -> Pad("q", PrefixLen) \o <<"1">>
      [] b = "q2" -> Pad("q", PrefixLen) \o <<"2">>
      [] OTHER    -> <<b>>

\* c["body"][:50]
BodyKey(c) == SubSeq(BodyText(c.body), 1, Min(Len(BodyText(c.body)), PrefixLen))

Comments ==
    { [body |-> "a",  score |-> 1],
      [body |-> "b",  score |-> 9],
      [body |-> "c",  score |-> 5],
      [body |-> "q1", score |-> 9],
      [body |-> "q2", score |-> 5] }

IsSortedDesc(s) == \A i \in 1..(Len(s) - 1) : s[i].score >= s[i + 1].score

Take(s, n) == SubSeq(s, 1, Min(Len(s), n))

\* What a comment fetch returns: distinct comments, sorted by score
\* descending, cut to three (comments.sort(reverse=True); comments[:3]).
FetchedCommentLists ==
    { s \in UNION { [1..n -> Comments] : n \in 0..FetchTopN } :
        /\ IsSortedDesc(s)
        /\ \A i, j \in 1..Len(s) : i # j => s[i] # s[j] }

(***************************************************************************)
(* Python's dict comprehension {key(c): c for c in lst}: keys keep the     *)
(* order of their first insertion, a repeated key keeps its place and      *)
(* takes the later value.  The dict is a sequence of <<key, value>>.       *)
(***************************************************************************)
DictPut(d, k, v) ==
    IF \E i \in 1..Len(d) : d[i][1] = k
    THEN [i \in 1..Len(d) |-> IF d[i][1] = k THEN <<k, v>> ELSE d[i]]
    ELSE Append(d, <<k, v>>)

RECURSIVE CommentDict(_, _)
CommentDict(lst, d) ==
    IF lst = <<>> THEN d
    ELSE CommentDict(Tail(lst), DictPut(d, BodyKey(Head(lst)), Head(lst)))

DictValues(d) == [i \in 1..Len(d) |-> d[i][2]]

(***************************************************************************)
(* sorted(values, key=score, reverse=True): a stable sort, elements of     *)
(* equal score keep their order.                                           *)
(***************************************************************************)
InsertDesc(s, c) ==
    LET k == Cardinality({i \in 1..Len(s) : s[i].score >= c.score})
    IN SubSeq(s, 1, k) \o <<c>> \o SubSeq(s, k + 1, Len(s))

RECURSIVE SortDesc(_, _)
SortDesc(lst, acc) ==
    IF lst = <<>> THEN acc ELSE SortDesc(Tail(lst), InsertDesc(acc, Head(lst)))

MergeCommentsNewFirst(existing_comments, new_comments) ==
    Take(new_comments \o existing_comments, TopN)

MergeCommentsNoCap(existing_comments, new_comments) ==
    SortDesc(DictValues(CommentDict(existing_comments \o new_comments, <<>>)), <<>>)

\* crawl.py 838-840
MergeComments(existing_comments, new_comments) ==
    Take(SortDesc(DictValues(CommentDict(existing_comments \o new_comments, <<>>)), <<>>), TopN)

(***************************************************************************)
(* Items as the source adapters build them.                                *)
(***************************************************************************)
Scores == {7, 10}
Counts == {0, 3}
Thumbs == {"", "t1", "t2"}

\* fetch_hackernews: no thumbnail, no "top_comments" key
HNItems ==
    { [id |-> "hn_1", score |-> s, comments |-> c, thumbnail |-> ""] :
        s \in Scores, c \in Counts }

\* fetch_rss: score 0, comments 0, no "top_comments" key
RSSItems ==
    { [id |-> "rss_1", score |-> 0, comments |-> 0, thumbnail |-> t] : t \in Thumbs }

\* the Reddit adapters, after the enrichment stage has set top_comments
RedditItems ==
    { [id |-> "reddit_1", score |-> 7, comments |-> 3, thumbnail |-> "",
       top_comments |-> tc] : tc \in FetchedCommentLists }

Items == HNItems \cup RSSItems \cup RedditItems

\* d.get("top_comments", [])
GetTopComments(r) == IF "top_comments" \in DOMAIN r THEN r.top_comments ELSE <<>>

SetField(r, k, v) == [x \in (DOMAIN r) \cup {k} |-> IF x = k THEN v ELSE r[x]]

(***************************************************************************)
(* merge_posts                                                             *)
(***************************************************************************)
UpdateTopCommentsOverwrite(rec, p) ==
    SetField(rec, "top_comments", GetTopComments(p))

\* crawl.py 835-840
UpdateTopComments(rec, p) ==
    LET new_comments == GetTopComments(p)
    IN IF new_comments # <<>>
       THEN SetField(rec, "top_comments",
                     MergeComments(GetTopComments(rec), new_comments))
       ELSE rec

UpdateThumbnailOverwrite(rec, p) ==
    IF p.thumbnail # ""
    THEN [rec EXCEPT !.thumbnail = p.thumbnail]
    ELSE rec

\* crawl.py 833-834
UpdateThumbnail(rec, p) ==
    IF rec.thumbnail = "" /\ p.thumbnail # ""
    THEN [rec EXCEPT !.thumbnail = p.thumbnail]
    ELSE rec

UpdateCountersAssign(rec, p) ==
    [rec EXCEPT !.score = p.score,
                !.comments = p.comments,
                !.seen_count = rec.seen_count + 1]

UpdateCountersSeenKept(rec, p) ==
    [rec EXCEPT !.score = Max(rec.score, p.score),
                !.comments = Max(rec.comments, p.comments)]

\* crawl.py 830-832
UpdateCounters(rec, p) ==
    [rec EXCEPT !.score = Max(rec.score, p.score),
                !.comments = Max(rec.comments, p.comments),
                !.seen_count = rec.seen_count + 1]

\* crawl.py 842-844
InsertRecord(p, now) ==
    p @@ [seen_count |-> 1, first_seen |-> now]

MergeOneRestamp(posts, p, now) ==
    IF p.id \in DOMAIN posts
    THEN [posts EXCEPT ![p.id] =
            [UpdateTopComments(UpdateThumbnail(UpdateCounters(posts[p.id], p), p), p)
                EXCEPT !.first_seen = now]]
    ELSE posts @@ (p.id :> InsertRecord(p, now))

\* one pass of the loop body, crawl.py 828-844
MergeOne(posts, p, now) ==
    IF p.id \in DOMAIN posts
    THEN [posts EXCEPT ![p.id] =
            UpdateTopComments(UpdateThumbnail(UpdateCounters(posts[p.id], p), p), p)]
    ELSE posts @@ (p.id :> InsertRecord(p, now))

RECURSIVE MergeLoop(_, _, _)
MergeLoop(posts, new_posts, now) ==
    IF new_posts = <<>> THEN posts
    ELSE MergeLoop(MergeOne(posts, Head(new_posts), now), Tail(new_posts), now)

MergePostsStampOnChange(existing, new_posts, now) ==
    [posts |-> MergeLoop(existing.posts, new_posts, now),
     last_crawl |-> IF new_posts = <<>> THEN existing.last_crawl ELSE now]

MergePostsBatchOnly(existing, new_posts, now) ==
    LET merged == MergeLoop(existing.posts, new_posts, now)
        ids == { new_posts[i].id : i \in 1..Len(new_posts) }
    IN [posts |-> [id \in ids |-> merged[id]], last_crawl |-> now]

\* crawl.py 825-847
merge_posts(existing, new_posts, now) ==
    [posts |-> MergeLoop(existing.posts, new_posts, now), last_crawl |-> now]

\* {"posts": {}, "last_crawl": None}
EmptyStore == [posts |-> <<>>, last_crawl |-> 0]

Batches(n) == UNION { [1..k -> Items] : k \in 0..n }

Cost(B) == IF B = <<>> THEN 1 ELSE Len(B)

(***************************************************************************)
(* collect_reddit: Redlib -> PullPush -> .json -> .rss                     *)
(*                                                                         *)
(* Instances are numbered by their place in REDLIB_INSTANCES, subreddits   *)
(* by their place in REDDIT_SUBS (1 is "todayilearned", the probe target). *)
(* Every network call is one step; what it returns is chosen by the        *)
(* environment.  A listing item is [src, sub, k, score, top_comments].     *)
(***************************************************************************)
Instances == 1..NumInstances
Subs == 1..NumSubs

Strategies == <<"redlib", "pullpush", "direct", "rss">>
Rank(s) == CHOOSE i \in 1..Len(Strategies) : Strategies[i] = s

\* the scores the model's listings carry
ScoreOf(src, sub, k) == IF src = "rss" THEN 0 ELSE (7 * sub + 3 * k) % 11

Listing(src, sub, n) ==
    [k \in 1..n |-> [src |-> src, sub |-> sub, k |-> k,
                     score |-> ScoreOf(src, sub, k), top_comments |-> <<>>]]

\* how many posts one Redlib page parses to: none, one, or (for the first
\* subreddit) more than limit_per_sub
PostCounts(sub) == IF sub = 1 THEN {0, 1, LimitPerSub + 1} ELSE {0, 1}
\* how many posts one API or feed request returns
ApiCounts == {0, 1}
\* what a comment request that is answered returns
FetchedComments == <<[body |-> "a", score |-> 1]>>

WithoutNothing(lst, x) == lst

WithoutAtHead(lst, x) == IF lst # <<>> /\ lst[1] = x THEN Tail(lst) ELSE lst

\* [i for i in lst if i != x]
Without(lst, x) == LET keep(i) == i # x IN SelectSeq(lst, keep)

\* the positions of posts, ordered as sorted(posts, key=score, reverse=True)
\* orders the posts (stable)
InsertIdxDesc(posts, idx, j) ==
    LET k == Cardinality({i \in 1..Len(idx) : posts[idx[i]].score >= posts[j].score})
    IN SubSeq(idx, 1, k) \o <<j>> \o SubSeq(idx, k + 1, Len(idx))

RECURSIVE SortIdxDesc(_, _, _)
SortIdxDesc(posts, j, acc) ==
    IF j > Len(posts) THEN acc
    ELSE SortIdxDesc(posts, j + 1, InsertIdxDesc(posts, acc, j))

TopInOrder(posts) == Take([i \in 1..Len(posts) |-> i], EnrichTop)

\* scored[:30]
TopByScore(posts) == Take(SortIdxDesc(posts, 1, <<>>), EnrichTop)

LogCall(strat, kind, ok) == listingCalls \cup {<<strat, kind, ok>>}

\* pacedSince after a request to instance i
Requested(ps, i) == [ps EXCEPT ![i] = "fresh"]

\* pacedSince after an asyncio.sleep between two Redlib requests
Slept(ps) == [i \in Instances |-> IF ps[i] = "fresh" THEN "paced" ELSE ps[i]]

\* the wait at the end of one pass of the loop over subreddits, crawl.py 337-338
SleptBetweenSubs(ps) == IF sub_i < subreddits THEN Slept(ps) ELSE ps

redlibLocals == <<pacedSince, subreddits, inst_i, working, remaining_instances, consecutive_fails,
                  success, sub_i, all_posts>>

\* ---- collect_reddit calls fetch_reddit_redlib(session, REDDIT_SUBS), ----
\* ---- crawl.py 667-672                                                ----
CollectReddit ==
    /\ rpc = "start"
    /\ subreddits' = NumSubs
    /\ rpc' = "rl_find"
    /\ UNCHANGED <<pacedSince, inst_i, working, remaining_instances, consecutive_fails,
                   success, sub_i, all_posts, redlib_posts, use_pullpush, api_available, stage,
                   top, enr_i, result, respLog, listingCalls, targetCalls,
                   commentCalls, probeLog, nSwitches, exhausted, enriched, raised>>
    /\ UNCHANGED <<rss_sub, produced, notReddit>>

\* ---- fetch_reddit_redlib called with a list of subreddits of any length, ----
\* ---- crawl.py 277-292                                                  ----
FetchRedditRedlib ==
    /\ rpc = "start"
    /\ \E n \in 1..MaxSubreddits : subreddits' = n
    /\ rpc' = "rl_find"
    /\ UNCHANGED <<pacedSince, inst_i, working, remaining_instances, consecutive_fails,
                   success, sub_i, all_posts, redlib_posts, use_pullpush, api_available, stage,
                   top, enr_i, result, respLog, listingCalls, targetCalls,
                   commentCalls, probeLog, nSwitches, exhausted, enriched, raised>>
    /\ UNCHANGED <<rss_sub, produced, notReddit>>

NextInstanceSkipsOne(i) == IF i + 2 <= NumInstances THEN i + 2 ELSE i + 1

\* for inst in REDLIB_INSTANCES: the instance after the one whose probe
\* returned nothing, crawl.py 269-273
NextInstance(i) == i + 1

ProbeStartAtLast(prev) == IF prev = 0 THEN 1 ELSE prev

\* for inst in REDLIB_INSTANCES begins at the head of the list whatever
\* instance was working when the call before returned, crawl.py 269
ProbeStart(prev) == 1

\* ---- fetch_reddit_redlib called again after it returned: the next crawl ----
\* ---- cycle, crawl.py 277-292.  Nothing of the call before is kept.     ----
FetchRedditRedlibAgain ==
    /\ rpc \in {"start", "cr_redlib_done"}
    /\ earlier' = IF rpc = "start" THEN earlier
                  ELSE [any |-> TRUE, working |-> working, exhausted |-> exhausted]
    /\ \E n \in 1..MaxSubreddits : subreddits' = n
    /\ inst_i' = ProbeStart(working)
    /\ pacedSince' = [i \in Instances |-> "unused"]
    /\ working' = 0
    /\ remaining_instances' = <<>>
    /\ consecutive_fails' = 0
    /\ success' = 0
    /\ sub_i' = 0
    /\ all_posts' = <<>>
    /\ redlib_posts' = <<>>
    /\ respLog' = <<>>
    /\ probeLog' = <<>>
    /\ listingCalls' = {}
    /\ nSwitches' = 0
    /\ exhausted' = FALSE
    /\ rpc' = "rl_find"
    /\ UNCHANGED <<use_pullpush, api_available, stage, top, enr_i, result,
                   targetCalls, commentCalls, enriched, raised>>
    /\ UNCHANGED <<rss_sub, produced, notBreaker>>

\* ---- _redlib_find_working_instance, crawl.py 266-274 ----
RedlibFindProbe ==
    /\ rpc = "rl_find"
    /\ \E ok \in BOOLEAN :
         /\ listingCalls' = LogCall("redlib", "probe", ok)
         /\ probeLog' = Append(probeLog, [inst |-> inst_i, ok |-> ok, switch |-> FALSE])
         \* return inst at once, or sleep and go on, crawl.py 270-273
         /\ pacedSince' = IF ok THEN Requested(pacedSince, inst_i)
                                 ELSE Slept(Requested(pacedSince, inst_i))
         /\ IF ok
            THEN \* crawl.py 300-304
                 /\ working' = inst_i
                 /\ all_posts' = <<>>
                 /\ success' = 0
                 /\ consecutive_fails' = 0
                 /\ remaining_instances' = Without([i \in Instances |-> i], inst_i)
                 /\ sub_i' = 1
                 /\ inst_i' = 0
                 /\ rpc' = "rl_fetch"
                 /\ UNCHANGED redlib_posts
            ELSE IF inst_i < NumInstances
                 THEN /\ inst_i' = NextInstance(inst_i)
                      /\ UNCHANGED <<working, all_posts, success, consecutive_fails,
                                     remaining_instances, sub_i, rpc, redlib_posts>>
                 ELSE \* crawl.py 294-296
                      /\ redlib_posts' = <<>>
                      /\ rpc' = "cr_redlib_done"
                      /\ inst_i' = 0
                      /\ UNCHANGED <<working, all_posts, success, consecutive_fails,
                                     remaining_instances, sub_i>>
    /\ UNCHANGED <<subreddits, use_pullpush, api_available, stage, top, enr_i, result,
                   respLog, targetCalls, commentCalls, nSwitches, exhausted, enriched, raised>>
    /\ UNCHANGED <<rss_sub, produced, notReddit>>

NextSubAfterPosts(i, posts) == IF Len(posts) > Len(all_posts) THEN i + 1 ELSE i

\* for i, sub in enumerate(subreddits): the loop goes on to the next
\* subreddit whether or not the pass added posts, crawl.py 306
NextSub(i, posts) == i + 1

\* the end of one pass of the loop over subreddits, crawl.py 336-341:
\* the next subreddit, or the return of all_posts after the last one
RedlibAdvance(posts) ==
    IF sub_i < subreddits
    THEN /\ sub_i' = NextSub(sub_i, posts)
         /\ rpc' = "rl_fetch"
         /\ all_posts' = posts
         /\ UNCHANGED redlib_posts
    ELSE /\ redlib_posts' = posts
         /\ all_posts' = <<>>
         /\ rpc' = "cr_redlib_done"
         /\ UNCHANGED sub_i

SwitchNeededOffByOne(fails) == fails > MaxConsecutiveFails

\* crawl.py 316
SwitchNeeded(fails) == fails >= MaxConsecutiveFails

FailsAfterNoReset(fails, posts) == IF posts # <<>> THEN fails ELSE fails + 1

\* consecutive_fails after one subreddit fetch, crawl.py 309-314
FailsAfter(fails, posts) == IF posts # <<>> THEN 0 ELSE fails + 1

\* ---- one subreddit fetched from the working instance, crawl.py 306-316 ----
RedlibFetchSub ==
    /\ rpc = "rl_fetch"
    /\ \E n \in PostCounts(sub_i) :
         LET posts == Listing("redlib", sub_i, n) IN
         /\ respLog' = Append(respLog, [sub |-> sub_i, inst |-> working, n |-> n])
         /\ listingCalls' = LogCall("redlib", "target", n > 0)
         /\ UNCHANGED targetCalls
         /\ pacedSince' = IF posts = <<>> /\ SwitchNeeded(FailsAfter(consecutive_fails, posts))
                          THEN Requested(pacedSince, working)
                          ELSE SleptBetweenSubs(Requested(pacedSince, working))
         /\ IF posts # <<>>
            THEN /\ success' = success + 1
                 /\ consecutive_fails' = FailsAfter(consecutive_fails, posts)
                 /\ RedlibAdvance(all_posts \o Take(posts, LimitPerSub))
                 /\ UNCHANGED inst_i
            ELSE /\ consecutive_fails' = FailsAfter(consecutive_fails, posts)
                 /\ UNCHANGED success
                 /\ IF SwitchNeeded(FailsAfter(consecutive_fails, posts))
                    THEN /\ rpc' = "rl_switch"
                         /\ inst_i' = 1
                         /\ UNCHANGED <<sub_i, all_posts, redlib_posts>>
                    ELSE /\ RedlibAdvance(all_posts)
                         /\ UNCHANGED inst_i
    /\ UNCHANGED <<subreddits, working, remaining_instances, probeLog,
                   use_pullpush, api_available, stage, top, enr_i, result,
                   commentCalls, nSwitches, exhausted, enriched, raised>>
    /\ UNCHANGED <<rss_sub, produced, notReddit>>

RedlibGiveUpEmpty == <<>>

\* what the loop leaves behind when no fallback instance works, crawl.py 332-341
RedlibGiveUp == all_posts

\* ---- the fallback instances probed in turn, crawl.py 319-334 ----
RedlibSwitchProbe ==
    /\ rpc = "rl_switch"
    /\ \/ \* no fallback instance is left: break, return what was collected
          /\ inst_i > Len(remaining_instances)
          /\ redlib_posts' = RedlibGiveUp
          /\ all_posts' = <<>>
          /\ exhausted' = TRUE
          /\ rpc' = "cr_redlib_done"
          /\ inst_i' = 0
          /\ UNCHANGED <<working, remaining_instances, consecutive_fails, sub_i,
                         listingCalls, probeLog, nSwitches, pacedSince>>
       \/ /\ inst_i <= Len(remaining_instances)
          /\ \E ok \in BOOLEAN :
               /\ listingCalls' = LogCall("redlib", "probe", ok)
               /\ probeLog' = Append(probeLog, [inst |-> remaining_instances[inst_i],
                                                ok |-> ok, switch |-> TRUE])
               \* break and the wait that ends the pass, or sleep and go on,
               \* crawl.py 322-325, 337-338
               /\ pacedSince' =
                    IF ok THEN SleptBetweenSubs(Requested(pacedSince, remaining_instances[inst_i]))
                          ELSE Slept(Requested(pacedSince, remaining_instances[inst_i]))
               /\ IF ok
                  THEN /\ working' = remaining_instances[inst_i]
                       /\ remaining_instances' =
                              Without(remaining_instances, remaining_instances[inst_i])
                       /\ consecutive_fails' = 0
                       /\ nSwitches' = nSwitches + 1
                       /\ inst_i' = 0
                       /\ RedlibAdvance(all_posts)
                  ELSE /\ inst_i' = inst_i + 1
                       /\ UNCHANGED <<working, remaining_instances, consecutive_fails,
                                      nSwitches, sub_i, all_posts,
                                      redlib_posts, rpc>>
          /\ UNCHANGED exhausted
    /\ UNCHANGED <<subreddits, success, use_pullpush, api_available, stage, top, enr_i,
                   result, respLog, targetCalls, commentCalls, enriched, raised>>
    /\ UNCHANGED <<rss_sub, produced, notReddit>>

\* fetch_reddit_redlib has returned: its locals are gone
RedlibLocalsDropped ==
    /\ pacedSince' = [i \in Instances |-> "unused"]
    /\ subreddits' = 0
    /\ inst_i' = 1
    /\ working' = 0
    /\ remaining_instances' = <<>>
    /\ consecutive_fails' = 0
    /\ success' = 0
    /\ sub_i' = 0
    /\ all_posts' = <<>>

RedlibReturnedAll(posts) == posts # <<>> /\ ~exhausted

\* if redlib_posts: enrich and return them, crawl.py 673-678
RedlibReturnedPosts(posts) == posts # <<>>

\* ---- collect_reddit after fetch_reddit_redlib, crawl.py 673-681 ----
\* The records of the Redlib fetches are kept while the posts of Redlib are
\* what collect_reddit works on, and dropped when it turns to the APIs.
CollectAfterRedlib ==
    /\ rpc = "cr_redlib_done"
    /\ RedlibLocalsDropped
    /\ IF RedlibReturnedPosts(redlib_posts)
       THEN \* _enrich_comments, crawl.py 738-739
            /\ top' = TopByScore(redlib_posts)
            /\ rpc' = "en_probe_pullpush"
            /\ UNCHANGED <<respLog, probeLog, nSwitches, exhausted>>
       ELSE /\ rpc' = "cr_probe_pullpush"
            /\ respLog' = <<>>
            /\ probeLog' = <<>>
            /\ nSwitches' = 0
            /\ exhausted' = FALSE
            /\ UNCHANGED top
    /\ UNCHANGED <<redlib_posts, use_pullpush, api_available, stage,
                   enr_i, result, listingCalls, targetCalls, commentCalls,
                   enriched, raised>>
    /\ UNCHANGED <<rss_sub, produced, notReddit>>

\* ---- _enrich_comments: is an API reachable, crawl.py 741-750 ----
EnrichProbePullpush ==
    /\ rpc = "en_probe_pullpush"
    /\ \E ok \in BOOLEAN :
         /\ listingCalls' = LogCall("pullpush", "probe", ok)
         /\ use_pullpush' = ok
         /\ IF ok THEN rpc' = "en_loop" /\ enr_i' = 1
                  ELSE rpc' = "en_probe_direct" /\ UNCHANGED enr_i
    /\ UNCHANGED <<redlibLocals, redlib_posts, api_available, stage, top, result,
                   respLog, targetCalls, commentCalls, probeLog, nSwitches,
                   exhausted, enriched, raised>>
    /\ UNCHANGED <<rss_sub, produced, notReddit>>

EnrichRegardless(pullpush_ok, direct_ok) == TRUE

\* use_pullpush = bool(test); if not use_pullpush: ... if not test2: return,
\* crawl.py 742-750
EnrichAfterProbes(pullpush_ok, direct_ok) == pullpush_ok \/ direct_ok

EnrichProbeDirect ==
    /\ rpc = "en_probe_direct"
    /\ \E ok \in BOOLEAN :
         /\ listingCalls' = LogCall("direct", "probe", ok)
         /\ IF EnrichAfterProbes(use_pullpush, ok)
            THEN rpc' = "en_loop" /\ enr_i' = 1 /\ UNCHANGED result
            ELSE \* no API: return without comments; collect_reddit returns
                 /\ result' = redlib_posts
                 /\ rpc' = "done"
                 /\ UNCHANGED enr_i
    /\ UNCHANGED <<redlibLocals, redlib_posts, use_pullpush, api_available, stage,
                   top, respLog, targetCalls, commentCalls, probeLog, nSwitches,
                   exhausted, enriched, raised>>
    /\ UNCHANGED <<rss_sub, produced, notReddit>>

RECURSIVE PagesFrom(_, _)
\* the lists of posts the enrichment may be given: for each subreddit from
\* sub on, no post or a full page of limit_per_sub posts
PagesFrom(src, sub) ==
    IF sub > NumSubs THEN {<<>>}
    ELSE { Listing(src, sub, n) \o rest :
             n \in {0, LimitPerSub}, rest \in PagesFrom(src, sub + 1) }

\* ---- _enrich_comments called with a list of posts, crawl.py 735-739 ----
EnrichCommentsCalled ==
    /\ rpc = "start"
    /\ \E posts \in PagesFrom("redlib", 1) \ {<<>>} :
         /\ redlib_posts' = posts
         /\ top' = TopByScore(posts)
    /\ rpc' = "en_probe_pullpush"
    /\ UNCHANGED <<redlibLocals, use_pullpush, api_available, stage, enr_i, result,
                   respLog, listingCalls, targetCalls, commentCalls, probeLog,
                   nSwitches, exhausted, enriched, raised>>
    /\ UNCHANGED <<rss_sub, produced, notReddit>>

\* ---- _enrich_comments_api called with a list of posts, crawl.py 771-774 ----
EnrichCommentsApiCalled ==
    /\ rpc = "start"
    /\ \E posts \in PagesFrom("pullpush", 1) \ {<<>>}, pp \in BOOLEAN :
         /\ all_posts' = posts
         /\ top' = TopByScore(posts)
         /\ use_pullpush' = pp
         \* the caller's probe had succeeded, crawl.py 687-697, 729
         /\ listingCalls' = LogCall(IF pp THEN "pullpush" ELSE "direct", "probe", TRUE)
    /\ api_available' = TRUE
    /\ enr_i' = 1
    /\ rpc' = "ea_loop"
    /\ UNCHANGED <<pacedSince, subreddits, inst_i, working, remaining_instances,
                   consecutive_fails, success, sub_i, redlib_posts, stage, result,
                   respLog, targetCalls, commentCalls, probeLog,
                   nSwitches, exhausted, enriched, raised>>
    /\ UNCHANGED <<rss_sub, produced, notReddit>>

RECURSIVE SetsUpTo(_, _)
\* the sets of at most k positions out of 1..n
SetsUpTo(n, k) ==
    IF k = 0 THEN {{}}
    ELSE LET smaller == SetsUpTo(n, k - 1)
         IN smaller \cup { S \cup {x} : S \in smaller, x \in 1..n }

\* which of the comment requests of one enrichment come back with comments:
\* any set of at most MaxEnriched of the top posts
CommentAnswers(n) == SetsUpTo(n, MaxEnriched)

\* the comments the request for the j-th top post returns
CommentListOf(answered, j) == IF j \in answered THEN FetchedComments ELSE <<>>

\* if comments: p["top_comments"] = comments, crawl.py 761-762
EnrichPost(p, comments) ==
    IF comments # <<>> THEN [p EXCEPT !.top_comments = comments] ELSE p

RECURSIVE EnrichLoop(_, _, _, _)
\* for p in top, from the j-th on, crawl.py 754-766
EnrichLoop(posts, tp, j, answered) ==
    IF j > Len(tp) THEN posts
    ELSE EnrichLoop([posts EXCEPT ![tp[j]] = EnrichPost(@, CommentListOf(answered, j))],
                    tp, j + 1, answered)

\* the comment request that raises while its answer is read (an answer of
\* another shape than the fetcher reads, crawl.py 545-551, 567-577): none,
\* the first or the last of the n requests
RaiseChoices(n) == {0} \cup { k \in {1, n} : k >= 1 }

\* ---- _enrich_comments: the loop over the top posts, crawl.py 753-768 ----
EnrichComments ==
    /\ rpc = "en_loop"
    /\ \E answered \in CommentAnswers(Len(top)) :
       \E r \in RaiseChoices(Len(top)) \ answered :
         /\ commentCalls' = commentCalls \cup
               { <<IF use_pullpush THEN "pullpush" ELSE "direct", top[j]>> :
                   j \in 1..Len(top) }
         \* except Exception: pass, crawl.py 763-764: the r-th post stays as
         \* it is and the loop goes on
         /\ raised' = r
         /\ redlib_posts' = EnrichLoop(redlib_posts, top, 1, answered)
         /\ enriched' = Cardinality(answered)
         /\ enr_i' = Len(top) + 1
         \* crawl.py 678
         /\ result' = redlib_posts'
         /\ rpc' = "done"
    /\ UNCHANGED <<redlibLocals, use_pullpush, api_available, stage, top,
                   respLog, listingCalls, targetCalls, probeLog, nSwitches,
                   exhausted>>
    /\ UNCHANGED <<rss_sub, produced, notReddit>>

FirstStageIgnoresFlag(pp) == "pullpush"

\* the first strategy fetch_reddit tries, crawl.py 526
FirstStage(pp) == IF pp THEN "pullpush" ELSE "direct"

\* enter the loop over REDDIT_SUBS, crawl.py 706-711
StartApiLoop(pp) ==
    /\ all_posts' = <<>>
    /\ sub_i' = 1
    /\ stage' = FirstStage(pp)
    /\ rpc' = "api_fetch"

\* ---- the probes of collect_reddit, crawl.py 680-704 ----
ProbePullpush ==
    /\ rpc = "cr_probe_pullpush"
    /\ \E ok \in BOOLEAN :
         /\ listingCalls' = LogCall("pullpush", "probe", ok)
         /\ IF ok
            THEN /\ use_pullpush' = TRUE
                 /\ api_available' = TRUE
                 /\ StartApiLoop(TRUE)
            ELSE /\ rpc' = "cr_probe_direct"
                 /\ UNCHANGED <<use_pullpush, api_available, all_posts, sub_i, stage>>
    /\ UNCHANGED <<pacedSince, subreddits, inst_i, working, remaining_instances, consecutive_fails, success,
                   redlib_posts, top, enr_i, result, respLog, targetCalls,
                   probeLog, nSwitches, exhausted, enriched, raised, commentCalls>>
    /\ UNCHANGED <<rss_sub, produced, notReddit>>

ProbeDirect ==
    /\ rpc = "cr_probe_direct"
    /\ \E ok \in BOOLEAN :
         /\ listingCalls' = LogCall("direct", "probe", ok)
         /\ IF ok
            THEN /\ api_available' = TRUE
                 /\ StartApiLoop(FALSE)
            ELSE /\ rpc' = "cr_probe_rss"
                 /\ UNCHANGED <<api_available, all_posts, sub_i, stage>>
    /\ UNCHANGED <<pacedSince, subreddits, inst_i, working, remaining_instances, consecutive_fails, success,
                   redlib_posts, use_pullpush, top, enr_i, result, respLog,
                   targetCalls, probeLog, nSwitches, exhausted, enriched, raised,
                   commentCalls>>
    /\ UNCHANGED <<rss_sub, produced, notReddit>>

ProbeRss ==
    /\ rpc = "cr_probe_rss"
    /\ \E ok \in BOOLEAN :
         /\ listingCalls' = LogCall("rss", "probe", ok)
         /\ IF ok
            THEN \* fetch_reddit_rss_multi, crawl.py 462-465
                 /\ all_posts' = <<>>
                 /\ sub_i' = 1
                 /\ stage' = "chunk"
                 /\ rpc' = "rss_multi"
                 /\ UNCHANGED result
            ELSE \* crawl.py 703-704
                 /\ result' = <<>>
                 /\ rpc' = "done"
                 /\ UNCHANGED <<all_posts, sub_i, stage>>
    /\ UNCHANGED <<pacedSince, subreddits, inst_i, working, remaining_instances, consecutive_fails, success,
                   redlib_posts, use_pullpush, api_available, top, enr_i,
                   respLog, targetCalls, probeLog, nSwitches, exhausted, enriched, raised,
                   commentCalls>>
    /\ UNCHANGED <<rss_sub, produced, notReddit>>

\* the strategy fetch_reddit turns to when strat returned nothing, crawl.py 528-533
NextStage(strat) ==
    CASE strat = "pullpush" -> "direct"
      [] strat = "direct"   -> "rss"
      [] OTHER              -> "none"

\* the end of fetch_reddit for one subreddit, crawl.py 713-719, and after the
\* last subreddit the start of _enrich_comments_api, crawl.py 729-730, 773-774
ApiAdvance(posts) ==
    /\ all_posts' = posts
    /\ stage' = FirstStage(use_pullpush)
    /\ IF sub_i < NumSubs
       THEN /\ sub_i' = sub_i + 1
            /\ UNCHANGED <<rpc, top, enr_i, result>>
       ELSE /\ UNCHANGED sub_i
            /\ IF posts # <<>> /\ api_available
               THEN /\ top' = TopByScore(posts)
                    /\ enr_i' = 1
                    /\ rpc' = "ea_loop"
                    /\ UNCHANGED result
               ELSE /\ result' = posts
                    /\ rpc' = "done"
                    /\ UNCHANGED <<top, enr_i>>

FetchRedditReturnsLast(posts, strat) == NextStage(strat) = "none"

\* fetch_reddit returns what strat returned (if posts: return posts, and the
\* last strategy's result whatever it is), crawl.py 526-533
FetchRedditReturns(posts, strat) == posts # <<>> \/ NextStage(strat) = "none"

\* ---- fetch_reddit: one request of one strategy for one subreddit ----
ApiFetch ==
    /\ rpc = "api_fetch"
    /\ \E n \in ApiCounts :
         LET posts == Listing(stage, sub_i, n) IN
         /\ listingCalls' = LogCall(stage, "target", n > 0)
         /\ targetCalls' = targetCalls \cup {<<stage, sub_i, n > 0>>}
         /\ produced' = produced \o posts
         /\ IF FetchRedditReturns(posts, stage)
            THEN ApiAdvance(all_posts \o posts)
            ELSE /\ stage' = NextStage(stage)
                 /\ UNCHANGED <<all_posts, sub_i, rpc, top, enr_i, result>>
    /\ UNCHANGED <<pacedSince, subreddits, inst_i, working, remaining_instances, consecutive_fails, success,
                   redlib_posts, use_pullpush, api_available, respLog, probeLog,
                   nSwitches, exhausted, enriched, raised, commentCalls>>
    /\ UNCHANGED <<rss_sub, notReddit>>

\* p["top_comments"] = comments, crawl.py 782
EnrichPostApi(p, comments) == [p EXCEPT !.top_comments = comments]

RECURSIVE EnrichLoopApi(_, _, _, _)
\* for p in top_reddit, from the j-th on, crawl.py 776-783
EnrichLoopApi(posts, tp, j, answered) ==
    IF j > Len(tp) THEN posts
    ELSE EnrichLoopApi([posts EXCEPT ![tp[j]] = EnrichPostApi(@, CommentListOf(answered, j))],
                       tp, j + 1, answered)

\* ---- _enrich_comments_api: the loop over the top posts, crawl.py 771-783 ----
EnrichCommentsApi ==
    /\ rpc = "ea_loop"
    /\ \E answered \in CommentAnswers(Len(top)) :
       \E r \in RaiseChoices(Len(top)) \ answered :
         /\ raised' = r
         /\ IF r = 0
            THEN /\ commentCalls' = commentCalls \cup
                       { <<IF use_pullpush THEN "pullpush" ELSE "direct", top[j]>> :
                           j \in 1..Len(top) }
                 /\ all_posts' = EnrichLoopApi(all_posts, top, 1, answered)
                 /\ enriched' = Cardinality(answered)
                 /\ enr_i' = Len(top) + 1
                 \* crawl.py 732
                 /\ result' = all_posts'
                 /\ rpc' = "done"
            ELSE \* no handler in the loop, in collect_reddit, in collect_all
                 \* or in main (crawl.py 776-783, 730, 806, 867): the
                 \* exception of the r-th request ends the cycle
                 /\ commentCalls' = commentCalls \cup
                       { <<IF use_pullpush THEN "pullpush" ELSE "direct", top[j]>> :
                           j \in 1..r }
                 /\ all_posts' = EnrichLoopApi(all_posts, SubSeq(top, 1, r - 1), 1,
                                               answered \cap (1..(r - 1)))
                 /\ enriched' = Cardinality(answered \cap (1..(r - 1)))
                 /\ enr_i' = r
                 /\ rpc' = "raised"
                 /\ UNCHANGED result
    /\ UNCHANGED <<pacedSince, subreddits, inst_i, working, remaining_instances, consecutive_fails, success,
                   sub_i, redlib_posts, use_pullpush, api_available, stage, top,
                   respLog, listingCalls, targetCalls, probeLog, nSwitches,
                   exhausted>>
    /\ UNCHANGED <<rss_sub, produced, notReddit>>

\* the subreddits of the chunk that starts at subreddit i, crawl.py 463-466
ChunkOf(i) == i..Min(i + ChunkSize - 1, NumSubs)

RECURSIVE FeedEntries(_, _)
\* one entry for each subreddit of the set subs, in the order of the subreddits
FeedEntries(subs, i) ==
    IF i > NumSubs THEN <<>>
    ELSE (IF i \in subs THEN Listing("rss", i, 1) ELSE <<>>) \o FeedEntries(subs, i + 1)

\* ---- fetch_reddit_rss_multi, crawl.py 465-520 ----
\* rss_sub = 0: the combined feed of the chunk starting at sub_i is requested;
\* otherwise the chunk's feed failed and subreddit rss_sub is fetched alone
RssMulti ==
    /\ rpc = "rss_multi"
    /\ IF stage = "chunk"
       THEN \E answer \in {"bozo", "none", "all"} :
              /\ listingCalls' = LogCall("rss", "target", answer = "all")
              /\ targetCalls' = targetCalls \cup
                    { <<"rss", t, answer = "all">> : t \in ChunkOf(sub_i) }
              /\ IF answer = "bozo"
                 THEN \* crawl.py 471-474: each subreddit of the chunk alone
                      /\ stage' = "single"
                      /\ rss_sub' = sub_i
                      /\ UNCHANGED <<all_posts, sub_i, rpc, result, produced>>
                 ELSE LET entries == IF answer = "all"
                                     THEN FeedEntries(ChunkOf(sub_i), 1) ELSE <<>>
                          posts == all_posts \o entries
                      IN /\ rss_sub' = 0
                         /\ produced' = produced \o entries
                         /\ UNCHANGED stage
                         /\ IF sub_i + ChunkSize <= NumSubs
                            THEN /\ sub_i' = sub_i + ChunkSize
                                 /\ all_posts' = posts
                                 /\ UNCHANGED <<rpc, result>>
                            ELSE \* crawl.py 720-732: no enrichment without an API
                                 /\ all_posts' = posts
                                 /\ result' = posts
                                 /\ rpc' = "done"
                                 /\ UNCHANGED sub_i
       ELSE \E n \in ApiCounts :
              LET posts == all_posts \o Listing("rss", rss_sub, n) IN
              /\ listingCalls' = LogCall("rss", "target", n > 0)
              /\ targetCalls' = targetCalls \cup {<<"rss", rss_sub, n > 0>>}
              /\ produced' = produced \o Listing("rss", rss_sub, n)
              /\ all_posts' = posts
              /\ IF rss_sub < Min(sub_i + ChunkSize - 1, NumSubs)
                 THEN /\ rss_sub' = rss_sub + 1
                      /\ UNCHANGED <<stage, sub_i, rpc, result>>
                 ELSE /\ rss_sub' = 0
                      /\ stage' = "chunk"
                      /\ IF sub_i + ChunkSize <= NumSubs
                         THEN /\ sub_i' = sub_i + ChunkSize
                              /\ UNCHANGED <<rpc, result>>
                         ELSE /\ result' = posts
                              /\ rpc' = "done"
                              /\ UNCHANGED sub_i
    /\ UNCHANGED <<pacedSince, subreddits, inst_i, working, remaining_instances, consecutive_fails, success,
                   redlib_posts, use_pullpush, api_available, top, enr_i, respLog,
                   probeLog, nSwitches, exhausted, enriched, raised, commentCalls>>
    /\ UNCHANGED notReddit

(***************************************************************************)
(* crawl.main and digest.main over posts.json and crawl_state.json.        *)
(*                                                                         *)
(* A file is [status, data]: "absent", "corrupt" (it exists and json.load  *)
(* raises on it: open(..., "w") has truncated it and the dump has not been *)
(* written) or "ok" with the value last dumped.  Each process is a         *)
(* sequence of steps; the crawl may stop at any step (an exception, a      *)
(* kill).  Time is the number of the crawl cycle.                          *)
(***************************************************************************)
DefaultState == [run_count |-> 0, last_reddit |-> 0, last_run |-> 0]

Absent == [status |-> "absent", data |-> <<>>]
Truncated == [status |-> "corrupt", data |-> <<>>]
Dumped(v) == [status |-> "ok", data |-> v]

\* crawl.py 75-82
load_state(f) == IF f.status = "ok" THEN f.data ELSE DefaultState

ShouldRunRedditEveryOther(st) == st.run_count % 2 = 0

\* crawl.py 91-92
should_run_reddit(st) == st.run_count % RedditEveryN = 0

\* crawl.py 815-822
load_existing(f) == IF f.status = "ok" THEN f.data ELSE EmptyStore

NextStateStampsBoth(st, now) ==
    [run_count |-> st.run_count + 1, last_run |-> now, last_reddit |-> now]

\* crawl.py 879-882
NextState(st, now) ==
    [run_count |-> st.run_count + 1,
     last_run |-> now,
     last_reddit |-> IF should_run_reddit(st) THEN now ELSE st.last_reddit]

HNPost == [id |-> "hn_1", score |-> 7, comments |-> 3, thumbnail |-> ""]
RSSPost == [id |-> "rss_1", score |-> 0, comments |-> 0, thumbnail |-> "t1"]
RedditPost == [id |-> "reddit_1", score |-> 7, comments |-> 3, thumbnail |-> "",
               top_comments |-> <<[body |-> "a", score |-> 1]>>]

CollectAllOrNothing(fast_posts, run_reddit, reddit_posts) ==
    IF run_reddit /\ reddit_posts = <<>> THEN <<>> ELSE fast_posts \o reddit_posts

\* collect_all: what collect_fast returned, and after it what collect_reddit
\* returned when run_reddit, crawl.py 800-810
collect_all(fast_posts, run_reddit, reddit_posts) ==
    fast_posts \o (IF run_reddit THEN reddit_posts ELSE <<>>)

\* what collect_all may return, crawl.py 800-810: the fast sources, and the
\* Reddit posts after them when run_reddit
CollectedBatches(run_reddit) ==
    {<<>>, <<HNPost>>, <<RSSPost>>}
        \cup (IF run_reddit THEN {<<HNPost, RedditPost>>} ELSE {})

cycleRecords == <<sent, storeAtStart, stateAtStart, loadFailed, storeWrites,
                  cReadAt, dReadAt, nCycles, nDigests>>
crawlLocals == <<c_state, c_new_posts, c_existing, c_merged>>

\* ---- crawl.main: load_state, crawl.py 861-863 ----
CrawlLoadState ==
    /\ cpc = "idle"
    /\ nCycles < MaxCycles
    /\ c_state' = load_state(stateFile)
    /\ storeAtStart' = postsFile
    /\ stateAtStart' = stateFile
    /\ loadFailed' = FALSE
    /\ nCycles' = nCycles + 1
    /\ cpc' = "collect"
    /\ UNCHANGED <<postsFile, stateFile, c_new_posts, c_existing, c_merged, dpc, d_posts,
                   sent, storeWrites, cReadAt, dReadAt, nDigests>>
    /\ UNCHANGED notCycle

\* ---- crawl.main: collect_all, crawl.py 867 ----
CrawlCollect ==
    /\ cpc = "collect"
    /\ \E batch \in CollectedBatches(should_run_reddit(c_state)) :
         c_new_posts' = batch
    /\ cpc' = "load_existing"
    /\ UNCHANGED <<postsFile, stateFile, c_state, c_existing, c_merged, dpc, d_posts,
                   cycleRecords>>
    /\ UNCHANGED notCycle

\* ---- crawl.main: load_existing, crawl.py 870 ----
CrawlLoadExisting ==
    /\ cpc = "load_existing"
    /\ c_existing' = load_existing(postsFile)
    /\ loadFailed' = (postsFile.status = "corrupt")
    /\ cReadAt' = storeWrites
    /\ cpc' = "merge"
    /\ UNCHANGED <<postsFile, stateFile, c_state, c_new_posts, c_merged, dpc, d_posts,
                   sent, storeAtStart, stateAtStart, storeWrites, dReadAt,
                   nCycles, nDigests>>
    /\ UNCHANGED notCycle

\* ---- crawl.main: merge_posts, crawl.py 872 ----
CrawlMerge ==
    /\ cpc = "merge"
    /\ c_merged' = merge_posts(c_existing, c_new_posts, nCycles)
    /\ cpc' = "save_data"
    /\ UNCHANGED <<postsFile, stateFile, c_state, c_new_posts, c_existing, dpc, d_posts,
                   cycleRecords>>
    /\ UNCHANGED notCycle

\* ---- save_data: open(POSTS_FILE, "w") truncates the file, crawl.py 852 ----
CrawlSaveDataOpen ==
    /\ cpc = "save_data"
    /\ postsFile' = Truncated
    /\ storeWrites' = storeWrites + 1
    /\ cpc' = "save_data_dump"
    /\ UNCHANGED <<stateFile, crawlLocals, dpc, d_posts, sent, storeAtStart,
                   stateAtStart, loadFailed, cReadAt, dReadAt, nCycles, nDigests>>
    /\ UNCHANGED notCycle

\* ---- save_data: json.dump and close, crawl.py 853 ----
CrawlSaveDataDump ==
    /\ cpc = "save_data_dump"
    /\ postsFile' = Dumped(c_merged)
    /\ cpc' = "save_state"
    /\ UNCHANGED <<stateFile, crawlLocals, dpc, d_posts, cycleRecords>>
    /\ UNCHANGED notCycle

\* ---- save_state: open(STATE_FILE, "w"), crawl.py 879-883, 87 ----
CrawlSaveStateOpen ==
    /\ cpc = "save_state"
    /\ stateFile' = Truncated
    /\ cpc' = "save_state_dump"
    /\ UNCHANGED <<postsFile, crawlLocals, dpc, d_posts, cycleRecords>>
    /\ UNCHANGED notCycle

\* ---- save_state: json.dump and close, crawl.py 88; the cycle ends ----
CrawlSaveStateDump ==
    /\ cpc = "save_state_dump"
    /\ stateFile' = Dumped(NextState(c_state, nCycles))
    /\ cpc' = "idle"
    /\ UNCHANGED <<postsFile, crawlLocals, dpc, d_posts, cycleRecords>>
    /\ UNCHANGED notCycle

\* ---- crawl.main stops where it is: an exception or a kill ----
CrawlStop ==
    /\ cpc # "idle"
    /\ cpc' = "idle"
    /\ UNCHANGED <<postsFile, stateFile, crawlLocals, dpc, d_posts, cycleRecords>>
    /\ UNCHANGED notCycle

\* the ids of the posts of a store, digest.py 84
PostIds(f) == DOMAIN f.data.posts

\* ---- digest.main: load_and_rank, digest.py 570-573, 78-84 ----
\* No file, or no post in it: the run ends.  json.load raises on a corrupt
\* file and nothing catches it: the run ends.
DigestLoadAndRank ==
    /\ dpc = "idle"
    /\ nDigests < MaxDigests
    /\ nDigests' = nDigests + 1
    /\ dReadAt' = storeWrites
    /\ IF postsFile.status # "ok"
       THEN d_posts' = {} /\ dpc' = "idle"
       ELSE /\ d_posts' = PostIds(postsFile)
            /\ dpc' = IF PostIds(postsFile) = {} THEN "idle" ELSE "summarize"
    /\ UNCHANGED <<postsFile, stateFile, cpc, crawlLocals, sent, storeAtStart,
                   stateAtStart, loadFailed, storeWrites, cReadAt, nCycles>>
    /\ UNCHANGED notCycle

\* ---- digest.main: classify_and_summarize, digest.py 584-587 ----
DigestSummarize ==
    /\ dpc = "summarize"
    /\ \E ok \in BOOLEAN : dpc' = IF ok THEN "send" ELSE "idle"
    /\ UNCHANGED <<postsFile, stateFile, cpc, crawlLocals, d_posts, cycleRecords>>
    /\ UNCHANGED notCycle

\* ---- digest.main: send_to_discord, digest.py 593 ----
DigestSend ==
    /\ dpc = "send"
    /\ sent' = sent \cup d_posts
    /\ dpc' = "clear_data"
    /\ UNCHANGED <<postsFile, stateFile, cpc, crawlLocals, d_posts, storeAtStart,
                   stateAtStart, loadFailed, storeWrites, cReadAt, dReadAt,
                   nCycles, nDigests>>
    /\ UNCHANGED notCycle

\* ---- clear_data: open(POSTS_FILE, "w"), digest.py 556 ----
DigestClearOpen ==
    /\ dpc = "clear_data"
    /\ postsFile' = Truncated
    /\ storeWrites' = storeWrites + 1
    /\ dpc' = "clear_data_dump"
    /\ UNCHANGED <<stateFile, cpc, crawlLocals, d_posts, sent, storeAtStart,
                   stateAtStart, loadFailed, cReadAt, dReadAt, nCycles, nDigests>>
    /\ UNCHANGED notCycle

\* ---- clear_data: json.dump and close, digest.py 557 ----
DigestClearDump ==
    /\ dpc = "clear_data_dump"
    /\ postsFile' = Dumped(EmptyStore)
    /\ dpc' = "idle"
    /\ UNCHANGED <<stateFile, cpc, crawlLocals, d_posts, cycleRecords>>
    /\ UNCHANGED notCycle

(***************************************************************************)
(* crawl.main, cycle after cycle, every cycle running to its end: what the *)
(* run state makes of the schedule of the collectors.                      *)
(***************************************************************************)
\* the collectors collect_all calls, crawl.py 800-810
CollectorsCalled(run_reddit) ==
    <<"collect_fast">> \o (IF run_reddit THEN <<"collect_reddit">> ELSE <<>>)

\* ---- crawl.main: load_state and should_run_reddit, crawl.py 861-863 ----
SchedLoadState ==
    /\ spc = "load_state"
    /\ Len(cycleLog) < MaxCompleted
    /\ s_state' = load_state(schedFile)
    /\ s_run_reddit' = should_run_reddit(load_state(schedFile))
    /\ spc' = "collect_all"
    /\ UNCHANGED <<schedFile, s_new_posts, s_calls, cycleLog>>
    /\ UNCHANGED notSched

\* ---- crawl.main: collect_all, crawl.py 867, 800-810 ----
SchedCollectAll ==
    /\ spc = "collect_all"
    /\ s_calls' = CollectorsCalled(s_run_reddit)
    /\ \E batch \in CollectedBatches(s_run_reddit) : s_new_posts' = batch
    /\ spc' = "save_state"
    /\ UNCHANGED <<schedFile, s_state, s_run_reddit, cycleLog>>
    /\ UNCHANGED notSched

\* ---- crawl.main: the state update and save_state, crawl.py 879-883 ----
SchedSaveState ==
    /\ spc = "save_state"
    /\ schedFile' = Dumped(NextState(s_state, Len(cycleLog) + 1))
    /\ cycleLog' = Append(cycleLog, [loaded |-> s_state.run_count,
                                     calls |-> s_calls,
                                     before |-> s_state,
                                     after |-> NextState(s_state, Len(cycleLog) + 1)])
    /\ s_new_posts' = <<>>
    /\ s_calls' = <<>>
    /\ spc' = "load_state"
    /\ UNCHANGED <<s_state, s_run_reddit>>
    /\ UNCHANGED notSched

(***************************************************************************)
(* The ids the adapters give to what they fetch, over several process      *)
(* invocations.                                                            *)
(*                                                                         *)
(* hash() of a str is salted per process (PYTHONHASHSEED is not set by the *)
(* program): within one process it is a function of the string, between    *)
(* processes it is any function.  str_hash holds hash(link) % 10**10 of    *)
(* the running process.  Strings that are cut are sequences of characters. *)
(***************************************************************************)
Links == {"l1", "l2"}
HashValues == {3, 7}

\* entries of a Reddit feed: the id is "t3_" and the post id, or a string
\* without "_"
RedditEntries ==
    { [link |-> "l1", id |-> <<"t", "3", "_", "a", "b">>],
      [link |-> "l2", id |-> <<"x", "y">>] }

\* posts of a Redlib page: the post id taken from the markup
RedlibPosts == { [link |-> "l1", post_id |-> <<"a", "b">>] }

\* s.split("_")[-1]
RECURSIVE LastPart(_)
LastPart(s) ==
    IF \A i \in 1..Len(s) : s[i] # "_" THEN s
    ELSE LastPart(Tail(s))

NoNumber == 0 - 1

\* f"rss_{hash(link) % 10**10}", crawl.py 629
RssId(link, h) == [prefix |-> "rss", number |-> h[link], text |-> <<>>]

\* f"reddit_{reddit_id}", crawl.py 428, 447
RedditRssId(entry, h) ==
    IF \E i \in 1..Len(entry.id) : entry.id[i] = "_"
    THEN [prefix |-> "reddit", number |-> NoNumber, text |-> LastPart(entry.id)]
    ELSE [prefix |-> "reddit", number |-> h[entry.link], text |-> <<>>]

\* f"reddit_{post_id}", crawl.py 222
RedlibId(post) == [prefix |-> "reddit", number |-> NoNumber, text |-> post.post_id]

\* ---- a crawl process starts: the interpreter draws its hash salt ----
IdProcessStart ==
    /\ ipc = "stopped"
    /\ nRuns < MaxRuns
    /\ \E h \in [Links -> HashValues] : str_hash' = h
    /\ nRuns' = nRuns + 1
    /\ ipc' = "running"
    /\ UNCHANGED idLog
    /\ UNCHANGED notIds

\* ---- fetch_rss builds an item of a feed entry, crawl.py 604-637 ----
IdFetchRss ==
    /\ ipc = "running"
    /\ \E link \in Links :
         idLog' = idLog \cup {[content |-> <<"feed", link>>, via |-> "fetch_rss",
                               id |-> RssId(link, str_hash)]}
    /\ UNCHANGED <<ipc, str_hash, nRuns>>
    /\ UNCHANGED notIds

\* ---- fetch_reddit_rss builds an item of a feed entry, crawl.py 424-447 ----
IdFetchRedditRss ==
    /\ ipc = "running"
    /\ \E entry \in RedditEntries :
         idLog' = idLog \cup {[content |-> <<"reddit", entry.link>>, via |-> "fetch_reddit_rss",
                               id |-> RedditRssId(entry, str_hash)]}
    /\ UNCHANGED <<ipc, str_hash, nRuns>>
    /\ UNCHANGED notIds

\* ---- _parse_redlib_html builds an item of a post, crawl.py 221-222 ----
IdParseRedlib ==
    /\ ipc = "running"
    /\ \E post \in RedlibPosts :
         idLog' = idLog \cup {[content |-> <<"reddit", post.link>>, via |-> "redlib",
                               id |-> RedlibId(post)]}
    /\ UNCHANGED <<ipc, str_hash, nRuns>>
    /\ UNCHANGED notIds

\* ---- the process ends ----
IdProcessExit ==
    /\ ipc = "running"
    /\ ipc' = "stopped"
    /\ UNCHANGED <<str_hash, idLog, nRuns>>
    /\ UNCHANGED notIds

(***************************************************************************)
(* digest.main with the calls of classify_and_summarize.                   *)
(*                                                                         *)
(* Posts are numbered 1..n in the order load_and_rank returns them.  Each  *)
(* call of the summarizer (call_gemini + parse_json_response) is one step; *)
(* whether it answers with a list that parses is chosen by the             *)
(* environment.                                                            *)
(***************************************************************************)
\* selected_posts[batch_start:batch_start + BATCH_SIZE], digest.py 295
BatchOf(sel, start) == SubSeq(sel, start + 1, Min(start + BatchSize, Len(sel)))

\* what the classification may keep of n posts, digest.py 281-286: all, all
\* but the first (a duplicate folded into another), or none
Classifications(n) ==
    { [i \in 1..n |-> i], [i \in 1..(n - 1) |-> i + 1], <<>> }

\* digest.main goes on to send and clear, digest.py 585-588
DigestProceeds(digest) == digest # <<>>

\* ---- digest.main: load_and_rank, digest.py 570-573 ----
DgLoadAndRank ==
    /\ gpc = "load_and_rank"
    /\ \E n \in 0..MaxLoaded :
         /\ stored' = 1..n
         /\ loaded' = [i \in 1..n |-> i]
         /\ gpc' = IF n = 0 THEN "end" ELSE "classify"
    /\ UNCHANGED <<selected_posts, batch_start, all_final, delivered, failures,
                   cleared>>
    /\ UNCHANGED notDigest

\* ---- classify_and_summarize: the classification call, digest.py 271-289 ----
DgClassify ==
    /\ gpc = "classify"
    /\ \/ \* the answer does not parse: return []
          /\ failures' = failures + 1
          /\ gpc' = "end"
          /\ UNCHANGED <<selected_posts, batch_start>>
       \/ \E sel \in Classifications(Len(loaded)) :
            /\ selected_posts' = sel
            /\ batch_start' = 0
            /\ gpc' = IF sel = <<>> THEN "end" ELSE "summarize"
            /\ UNCHANGED failures
    /\ UNCHANGED <<stored, loaded, all_final, delivered, cleared>>
    /\ UNCHANGED notDigest

\* ---- classify_and_summarize: one summary batch, digest.py 294-376, and ----
\* ---- after the last one digest.main's test of the result, 585-587     ----
DgSummarizeBatch ==
    /\ gpc = "summarize"
    /\ \E ok \in BOOLEAN :
         LET final == IF ok THEN all_final \o BatchOf(selected_posts, batch_start)
                           ELSE all_final
         IN /\ all_final' = final
            /\ failures' = IF ok THEN failures ELSE failures + 1
            /\ IF batch_start + BatchSize < Len(selected_posts)
               THEN /\ batch_start' = batch_start + BatchSize
                    /\ UNCHANGED gpc
               ELSE /\ UNCHANGED batch_start
                    /\ gpc' = IF DigestProceeds(final) THEN "send" ELSE "end"
    /\ UNCHANGED <<stored, loaded, selected_posts, delivered, cleared>>
    /\ UNCHANGED notDigest

\* ---- digest.main: send_to_discord, digest.py 592-593 ----
DgSend ==
    /\ gpc = "send"
    /\ delivered' = { all_final[i] : i \in 1..Len(all_final) }
    /\ gpc' = "clear_data"
    /\ UNCHANGED <<stored, loaded, selected_posts, batch_start, all_final, failures,
                   cleared>>
    /\ UNCHANGED notDigest

\* ---- digest.main: clear_data, digest.py 596-597, 554-558 ----
DgClearData ==
    /\ gpc = "clear_data"
    /\ stored' = {}
    /\ cleared' = TRUE
    /\ gpc' = "end"
    /\ UNCHANGED <<loaded, selected_posts, batch_start, all_final, delivered,
                   failures>>
    /\ UNCHANGED notDigest

(***************************************************************************)
(* load_and_rank inside digest.main.                                       *)
(*                                                                         *)
(* posts.json is given with no post, one post or one more than             *)
(* MAX_PER_GROUP posts of each source group; the digest run loads and      *)
(* ranks them, and clears the file if the summarizer returned a digest.    *)
(***************************************************************************)
HackerNews == "Hacker News"
RedditSources == {"Reddit r/todayilearned", "Reddit r/programming"}
FeedSource == "GeekNews"

\* the k-th stored post of a source; the scores vary with k and shift
StoredPost(src, k, shift) ==
    [id |-> <<src, k>>,
     source |-> src,
     score |-> IF src = FeedSource THEN 0 ELSE (1 + ((7 * k + 3 * shift) % 13)) * 2,
     comments |-> (5 * k + shift) % 7,
     seen_count |-> 1 + ((k + shift) % 3)]

StoredOf(src, n, shift) == [k \in 1..n |-> StoredPost(src, k, shift)]

\* the posts of posts.json in the order of data["posts"]
StoredPosts(nh, nr, nf, shift) ==
    StoredOf(HackerNews, nh, shift)
      \o StoredOf("Reddit r/todayilearned", nr \div 2, shift)
      \o StoredOf(FeedSource, nf, shift)
      \o StoredOf("Reddit r/programming", nr - (nr \div 2), shift + 1)

RankCounts == {0, 1, MaxPerGroup + 1}

TrendScoreUnweighted(p) == p.score + p.comments + p.seen_count

\* p["trend_score"], digest.py 88-92
TrendScore(p) == p.score + p.comments * 2 + p.seen_count * 50

\* for p in posts: p["trend_score"] = ..., digest.py 87-92
WithTrendScore(posts) ==
    [i \in 1..Len(posts) |->
        [id |-> posts[i].id, source |-> posts[i].source, score |-> posts[i].score,
         comments |-> posts[i].comments, seen_count |-> posts[i].seen_count,
         trend_score |-> TrendScore(posts[i])]]

\* src == "Hacker News" / src.startswith("Reddit") / else, digest.py 98-104
GroupOf(src) ==
    IF src = HackerNews THEN "hn"
    ELSE IF src \in RedditSources THEN "reddit"
    ELSE "rss"

PostsOfGroup(posts, g) == LET in_g(p) == GroupOf(p.source) = g IN SelectSeq(posts, in_g)

\* lst.sort(key=lambda x: x["trend_score"], reverse=True), digest.py 107-109,
\* 122: the sort is stable, so a post comes after the posts with a higher
\* trend_score and after the earlier posts with the same trend_score
SortByTrend(posts) ==
    LET n == Len(posts)
        place == [j \in 1..n |->
                    1 + Cardinality({ i \in 1..n :
                          \/ posts[i].trend_score > posts[j].trend_score
                          \/ /\ posts[i].trend_score = posts[j].trend_score
                             /\ i < j })]
    IN [r \in 1..n |-> posts[CHOOSE j \in 1..n : place[j] = r]]

\* load_and_rank, digest.py 78-124
load_and_rank(f) ==
    IF f.status = "absent" THEN <<>>
    ELSE LET posts == WithTrendScore(f.data)
             hn_posts == SortByTrend(PostsOfGroup(posts, "hn"))
             rss_posts == SortByTrend(PostsOfGroup(posts, "rss"))
             reddit_posts == SortByTrend(PostsOfGroup(posts, "reddit"))
             selected == Take(hn_posts, MaxPerGroup)
                           \o Take(rss_posts, MaxPerGroup)
                           \o Take(reddit_posts, MaxPerGroup)
         IN SortByTrend(selected)

\* ---- posts.json as the crawl cycles left it ----
RankStoreGiven ==
    /\ kpc = "start"
    /\ \/ rk_file' = [status |-> "absent", data |-> <<>>]
       \/ \E nh \in RankCounts, nr \in RankCounts, nf \in RankCounts,
             shift \in 0..MaxShift :
            rk_file' = [status |-> "ok", data |-> StoredPosts(nh, nr, nf, shift)]
    /\ kpc' = "load_and_rank"
    /\ UNCHANGED <<rk_input, rk_posts, rk_erased>>
    /\ UNCHANGED notRank

\* ---- digest.main: posts = load_and_rank(), digest.py 570-573 ----
RankLoadAndRank ==
    /\ kpc = "load_and_rank"
    /\ rk_input' = rk_file.data
    /\ rk_posts' = load_and_rank(rk_file)
    /\ kpc' = IF rk_posts' = <<>> THEN "end" ELSE "classify_and_summarize"
    /\ UNCHANGED <<rk_file, rk_erased>>
    /\ UNCHANGED notRank

\* ---- digest.main: classify_and_summarize, digest.py 584-588 ----
RankClassifyAndSummarize ==
    /\ kpc = "classify_and_summarize"
    /\ \E digest \in BOOLEAN : kpc' = IF digest THEN "send_to_discord" ELSE "end"
    /\ UNCHANGED <<rk_file, rk_input, rk_posts, rk_erased>>
    /\ UNCHANGED notRank

\* ---- digest.main: send_to_discord, digest.py 593-594 ----
RankSendToDiscord ==
    /\ kpc = "send_to_discord"
    /\ kpc' = "clear_data"
    /\ UNCHANGED <<rk_file, rk_input, rk_posts, rk_erased>>
    /\ UNCHANGED notRank

\* ---- digest.main: clear_data, digest.py 596-597, 554-558 ----
RankClearData ==
    /\ kpc = "clear_data"
    /\ rk_erased' = { rk_file.data[i].id : i \in 1..Len(rk_file.data) }
    /\ rk_file' = [status |-> "ok", data |-> <<>>]
    /\ kpc' = "end"
    /\ UNCHANGED <<rk_input, rk_posts>>
    /\ UNCHANGED notRank

(***************************************************************************)
(* call_gemini: one call, request by request.                              *)
(*                                                                         *)
(* A request is answered with an HTTP status, runs into the timeout, or    *)
(* fails with another exception (a connection error, a body that is not    *)
(* the JSON expected), which call_gemini does not catch.                   *)
(***************************************************************************)
\* 200 with a candidate, 200 without one, other statuses, the timeout, an
\* exception other than asyncio.TimeoutError
GeminiResponses == {"200", "200_no_candidates", "429", "503", "400", "500",
                    "timeout", "error"}

RetryAfterAnyStatus(status, att) == att < MaxRetries - 1

\* resp.status in (429, 503) and attempt < max_retries - 1, digest.py 150
RetryAfterStatus(status, att) == status \in {"429", "503"} /\ att < MaxRetries - 1

\* except asyncio.TimeoutError: if attempt < max_retries - 1, digest.py 159-160
RetryAfterTimeout(att) == att < MaxRetries - 1

\* ---- call_gemini(prompt), digest.py 129-139 ----
CallGemini ==
    /\ qpc = "idle"
    /\ attempt' = 0
    /\ qpc' = "request"
    /\ UNCHANGED <<responses, text_out>>
    /\ UNCHANGED notGemini

\* ---- one pass of for attempt in range(max_retries), digest.py 139-166 ----
GeminiRequest ==
    /\ qpc = "request"
    /\ \E r \in GeminiResponses :
         /\ responses' = Append(responses, r)
         /\ CASE r = "200" ->
                   \* digest.py 142-147
                   /\ text_out' = "text"
                   /\ qpc' = "returned"
                   /\ UNCHANGED attempt
              [] r = "200_no_candidates" ->
                   /\ text_out' = ""
                   /\ qpc' = "returned"
                   /\ UNCHANGED attempt
              [] r = "timeout" ->
                   \* digest.py 158-165
                   IF RetryAfterTimeout(attempt)
                   THEN /\ attempt' = attempt + 1
                        /\ UNCHANGED <<qpc, text_out>>
                   ELSE /\ text_out' = ""
                        /\ qpc' = "returned"
                        /\ UNCHANGED attempt
              [] r = "error" ->
                   \* no handler: the exception leaves call_gemini
                   /\ qpc' = "raised"
                   /\ UNCHANGED <<attempt, text_out>>
              [] OTHER ->
                   \* digest.py 149-157
                   IF RetryAfterStatus(r, attempt)
                   THEN /\ attempt' = attempt + 1
                        /\ UNCHANGED <<qpc, text_out>>
                   ELSE /\ text_out' = ""
                        /\ qpc' = "returned"
                        /\ UNCHANGED attempt
    /\ UNCHANGED notGemini

(***************************************************************************)
(* SpecMerge: merge_posts calls, from the empty store.                     *)
(***************************************************************************)
Init ==
    /\ store = EmptyStore
    /\ prevStore = EmptyStore
    /\ lastBatch = <<>>
    /\ nObs = 0
    /\ clock = 0
    /\ rpc = "start"
    /\ pacedSince = [i \in Instances |-> "unused"]
    /\ subreddits = 0
    /\ inst_i = 1
    /\ working = 0
    /\ remaining_instances = <<>>
    /\ consecutive_fails = 0
    /\ success = 0
    /\ sub_i = 0
    /\ all_posts = <<>>
    /\ redlib_posts = <<>>
    /\ use_pullpush = FALSE
    /\ api_available = FALSE
    /\ stage = "none"
    /\ top = <<>>
    /\ enr_i = 0
    /\ result = <<>>
    /\ respLog = <<>>
    /\ listingCalls = {}
    /\ targetCalls = {}
    /\ commentCalls = {}
    /\ probeLog = <<>>
    /\ nSwitches = 0
    /\ exhausted = FALSE
    /\ enriched = 0
    /\ raised = 0
    /\ rss_sub = 0
    /\ produced = <<>>
    /\ postsFile = Absent
    /\ stateFile = Absent
    /\ cpc = "idle"
    /\ c_state = DefaultState
    /\ c_new_posts = <<>>
    /\ c_existing = EmptyStore
    /\ c_merged = EmptyStore
    /\ dpc = "idle"
    /\ d_posts = {}
    /\ sent = {}
    /\ storeAtStart = Absent
    /\ stateAtStart = Absent
    /\ loadFailed = FALSE
    /\ storeWrites = 0
    /\ cReadAt = 0
    /\ dReadAt = 0
    /\ nCycles = 0
    /\ nDigests = 0
    /\ spc = "load_state"
    /\ schedFile = Absent
    /\ s_state = DefaultState
    /\ s_run_reddit = FALSE
    /\ s_new_posts = <<>>
    /\ s_calls = <<>>
    /\ cycleLog = <<>>
    /\ gpc = "load_and_rank"
    /\ stored = {}
    /\ loaded = <<>>
    /\ selected_posts = <<>>
    /\ batch_start = 0
    /\ all_final = <<>>
    /\ delivered = {}
    /\ failures = 0
    /\ cleared = FALSE
    /\ ipc = "stopped"
    /\ str_hash = [l \in Links |-> 3]
    /\ idLog = {}
    /\ nRuns = 0
    /\ earlier = [any |-> FALSE, working |-> 0, exhausted |-> FALSE]
    /\ kpc = "start"
    /\ rk_file = [status |-> "absent", data |-> <<>>]
    /\ rk_input = <<>>
    /\ rk_posts = <<>>
    /\ rk_erased = {}
    /\ qpc = "idle"
    /\ attempt = 0
    /\ responses = <<>>
    /\ text_out = ""

Merge ==
    /\ nObs < MaxObs
    /\ \E B \in Batches(MaxObs - nObs) :
         /\ store' = merge_posts(store, B, clock + 1)
         /\ prevStore' = store
         /\ lastBatch' = B
         /\ nObs' = nObs + Cost(B)
         /\ clock' = clock + 1
    /\ UNCHANGED notMerge

NextMerge == Merge

SpecMerge == Init /\ [][NextMerge]_vars

(***************************************************************************)
(* SpecReddit: one call of collect_reddit.                                 *)
(***************************************************************************)
NextReddit ==
    \/ CollectReddit
    \/ RedlibFindProbe
    \/ RedlibFetchSub
    \/ RedlibSwitchProbe
    \/ CollectAfterRedlib
    \/ EnrichProbePullpush
    \/ EnrichProbeDirect
    \/ EnrichComments
    \/ ProbePullpush
    \/ ProbeDirect
    \/ ProbeRss
    \/ ApiFetch
    \/ EnrichCommentsApi
    \/ RssMulti

SpecReddit == Init /\ [][NextReddit]_vars

(***************************************************************************)
(* SpecRedlib: fetch_reddit_redlib alone, over subreddit lists long enough *)
(* for more than one instance switch.                                      *)
(***************************************************************************)
NextRedlib ==
    \/ FetchRedditRedlib
    \/ RedlibFindProbe
    \/ RedlibFetchSub
    \/ RedlibSwitchProbe

SpecRedlib == Init /\ [][NextRedlib]_vars

(***************************************************************************)
(* SpecEnrich: the two comment enrichments alone, over lists of posts long *)
(* enough for the cut to the 30 best.                                      *)
(***************************************************************************)
NextEnrich ==
    \/ EnrichCommentsCalled
    \/ EnrichCommentsApiCalled
    \/ EnrichProbePullpush
    \/ EnrichProbeDirect
    \/ EnrichComments
    \/ EnrichCommentsApi

SpecEnrich == Init /\ [][NextEnrich]_vars

(***************************************************************************)
(* SpecBreaker: fetch_reddit_redlib called again and again, as the crawl   *)
(* cycles call it.                                                         *)
(***************************************************************************)
NextBreaker ==
    \/ FetchRedditRedlibAgain
    \/ RedlibFindProbe
    \/ RedlibFetchSub
    \/ RedlibSwitchProbe

SpecBreaker == Init /\ [][NextBreaker]_vars

(***************************************************************************)
(* SpecRedlibLive: SpecRedlib with the steps of the call taken as long as  *)
(* one is possible: the coroutine is awaited to its end by collect_reddit. *)
(***************************************************************************)
SpecRedlibLive == Init /\ [][NextRedlib]_vars /\ WF_vars(NextRedlib)

(***************************************************************************)
(* SpecGemini: one call of call_gemini; SpecGeminiLive: the same with the  *)
(* call awaited to its end (every request has a timeout, every wait ends). *)
(***************************************************************************)
NextGemini ==
    \/ CallGemini
    \/ GeminiRequest

SpecGemini == Init /\ [][NextGemini]_vars

SpecGeminiLive == Init /\ [][NextGemini]_vars /\ WF_vars(NextGemini)

(***************************************************************************)
(* SpecRank: one digest run over a store with full source groups.          *)
(***************************************************************************)
NextRank ==
    \/ RankStoreGiven
    \/ RankLoadAndRank
    \/ RankClassifyAndSummarize
    \/ RankSendToDiscord
    \/ RankClearData

SpecRank == Init /\ [][NextRank]_vars

(***************************************************************************)
(* SpecCycle: crawl cycles and digest runs over the persisted files.       *)
(***************************************************************************)
NextCycle ==
    \/ CrawlLoadState
    \/ CrawlCollect
    \/ CrawlLoadExisting
    \/ CrawlMerge
    \/ CrawlSaveDataOpen
    \/ CrawlSaveDataDump
    \/ CrawlSaveStateOpen
    \/ CrawlSaveStateDump
    \/ CrawlStop
    \/ DigestLoadAndRank
    \/ DigestSummarize
    \/ DigestSend
    \/ DigestClearOpen
    \/ DigestClearDump

SpecCycle == Init /\ [][NextCycle]_vars

(***************************************************************************)
(* SpecDigest: one digest run, call by call.                               *)
(***************************************************************************)
NextDigest ==
    \/ DgLoadAndRank
    \/ DgClassify
    \/ DgSummarizeBatch
    \/ DgSend
    \/ DgClearData

SpecDigest == Init /\ [][NextDigest]_vars

(***************************************************************************)
(* SpecSchedule: crawl cycles that all run to their end.                   *)
(***************************************************************************)
NextSchedule ==
    \/ SchedLoadState
    \/ SchedCollectAll
    \/ SchedSaveState

SpecSchedule == Init /\ [][NextSchedule]_vars

(***************************************************************************)
(* SpecIds: the ids given to fetched content over process invocations.     *)
(***************************************************************************)
NextIds ==
    \/ IdProcessStart
    \/ IdFetchRss
    \/ IdFetchRedditRss
    \/ IdParseRedlib
    \/ IdProcessExit

SpecIds == Init /\ [][NextIds]_vars

(***************************************************************************)
(* Properties of merge_posts.                                              *)
(***************************************************************************)
IdsOf(B) == { B[i].id : i \in 1..Len(B) }

\* every occurrence of id in B carries an empty top_comments list
NoCommentsFor(B, id) ==
    \A i \in 1..Len(B) : B[i].id = id => GetTopComments(B[i]) = <<>>

\* C1: a merge in which an item already in the store carries an empty
\* top_comments list leaves that record's top_comments as they were.
C1_EmptyCommentsKeepExisting ==
    \A id \in (DOMAIN prevStore.posts) \cap IdsOf(lastBatch) :
        NoCommentsFor(lastBatch, id) =>
            GetTopComments(store.posts[id]) = GetTopComments(prevStore.posts[id])

\* a record that held comments has been merged with an observation that
\* found none
C1_Witness ==
    \E id \in (DOMAIN prevStore.posts) \cap IdsOf(lastBatch) :
        /\ NoCommentsFor(lastBatch, id)
        /\ GetTopComments(prevStore.posts[id]) # <<>>
        /\ store.posts[id].seen_count = prevStore.posts[id].seen_count + 1

\* C2: merging the batch a second time leaves score, comments, thumbnail
\* and top_comments of every record as the first merge left them, and
\* raises the seen_count of each id of the batch by exactly one.
C2_MergeTwiceSameAsOnce ==
    LET once  == store
        twice == merge_posts(store, lastBatch, clock + 1)
    IN /\ DOMAIN twice.posts = DOMAIN once.posts
       /\ \A id \in DOMAIN once.posts :
            /\ twice.posts[id].score = once.posts[id].score
            /\ twice.posts[id].comments = once.posts[id].comments
            /\ twice.posts[id].thumbnail = once.posts[id].thumbnail
            /\ GetTopComments(twice.posts[id]) = GetTopComments(once.posts[id])
            /\ id \in IdsOf(lastBatch) =>
                  twice.posts[id].seen_count = once.posts[id].seen_count + 1

\* C3: every record's top_comments has at most 3 entries and is sorted by
\* score descending, whether the record was only inserted or also updated.
C3_TopCommentsCappedSorted ==
    \A id \in DOMAIN store.posts :
        /\ Len(GetTopComments(store.posts[id])) <= TopN
        /\ IsSortedDesc(GetTopComments(store.posts[id]))

\* an update has merged four differently keyed comments into a record
C3_Witness ==
    \E id \in (DOMAIN prevStore.posts) \cap IdsOf(lastBatch) :
        /\ Len(MergeCommentsNoCap(GetTopComments(prevStore.posts[id]),
                                  GetTopComments(lastBatch[1]))) > TopN
        /\ lastBatch[1].id = id
        /\ Len(GetTopComments(store.posts[id])) = TopN

(***************************************************************************)
(* Properties of collect_reddit.                                           *)
(***************************************************************************)
RECURSIVE TrailingEmpty(_, _)
\* how many subreddit fetches in a row, up to the last one, instance inst
\* answered with nothing
TrailingEmpty(log, inst) ==
    IF log = <<>> THEN 0
    ELSE LET e == log[Len(log)]
         IN IF e.n = 0 /\ e.inst = inst
            THEN 1 + TrailingEmpty(SubSeq(log, 1, Len(log) - 1), inst)
            ELSE 0

\* C4: when a subreddit fetch is issued the instance in use has not failed 3
\* subreddits in a row (a switch comes first), and the failure counter is
\* at most 2.
C4_SwitchBeforeFourthFetch ==
    rpc = "rl_fetch" =>
        /\ TrailingEmpty(respLog, working) < MaxConsecutiveFails
        /\ consecutive_fails < MaxConsecutiveFails

\* an instance failed 3 subreddits in a row, a switch found another
\* instance, and the next subreddit is about to be fetched from it
C4_Witness ==
    /\ rpc = "rl_fetch"
    /\ nSwitches >= 1
    /\ Len(respLog) >= MaxConsecutiveFails
    /\ respLog[Len(respLog)].n = 0
    /\ respLog[Len(respLog)].inst # working

RECURSIVE ItemsOfLog(_)
\* the posts of the subreddit fetches that answered, each cut to limit_per_sub
ItemsOfLog(log) ==
    IF log = <<>> THEN <<>>
    ELSE Listing("redlib", Head(log).sub, Min(Head(log).n, LimitPerSub))
            \o ItemsOfLog(Tail(log))

IdOf(item) == <<item.src, item.sub, item.k>>
Ids(posts) == [i \in 1..Len(posts) |-> IdOf(posts[i])]

Answered(log) == Cardinality({ i \in 1..Len(log) : log[i].n > 0 })

\* C5: when a switch finds no working instance after k >= 1 subreddits
\* answered, fetch_reddit_redlib returns the posts of those k subreddits
\* (each cut to limit_per_sub) and collect_reddit returns these posts.
C5_PartialResultsKept ==
    (exhausted /\ Answered(respLog) >= 1) =>
        /\ rpc = "cr_redlib_done" =>
              redlib_posts = ItemsOfLog(respLog) /\ redlib_posts # <<>>
        /\ rpc = "done" =>
              Ids(result) = Ids(ItemsOfLog(respLog)) /\ result # <<>>

\* collect_reddit has returned after the instances ran out with some
\* subreddits fetched, one of them cut to limit_per_sub, and others not
\* reached
C5_Witness ==
    /\ exhausted
    /\ rpc = "done"
    /\ Answered(respLog) >= 1
    /\ Len(respLog) < NumSubs
    /\ \E i \in 1..Len(respLog) : respLog[i].n > LimitPerSub
    /\ result # <<>>

Called(s) == \E c \in listingCalls : c[1] = s
FailsAlways(s) == \A c \in listingCalls : c[1] = s => ~c[3]
SucceedsAlways(s) == \A c \in listingCalls : c[1] = s => c[3]
StrategySet == { Strategies[i] : i \in 1..Len(Strategies) }

ProducedBy(s) == LET from(item) == item.src = s IN SelectSeq(produced, from)

\* no strategy ranked after s2 was called, and what was returned is what the
\* per-target requests of s2 returned
OnlyUpTo(s2) ==
    /\ \A s \in StrategySet : Rank(s) > Rank(s2) => ~Called(s)
    /\ Ids(result) = Ids(ProducedBy(s2))

\* C6 as stated: for every adjacent pair S1, S2 of which S1 failed on every
\* call and S2 answered every call, nothing ranked after S2 was called and
\* the returned items are those of S2.
C6_AsStated ==
    rpc = "done" =>
        \A i \in 1..(Len(Strategies) - 1) :
            LET s1 == Strategies[i]
                s2 == Strategies[i + 1]
            IN (Called(s1) /\ FailsAlways(s1) /\ Called(s2) /\ SucceedsAlways(s2))
                   => OnlyUpTo(s2)

\* C6, amended: if every strategy ranked before S2 failed on every call and
\* S2 answered every call, nothing ranked after S2 was called and the
\* returned items are those of S2.
C6_FallbackStopsAtFirstWorking ==
    rpc = "done" =>
        \A i \in 1..(Len(Strategies) - 1) :
            LET s2 == Strategies[i + 1]
            IN ((\A s \in StrategySet : Rank(s) < Rank(s2) => (Called(s) /\ FailsAlways(s)))
                  /\ Called(s2) /\ SucceedsAlways(s2))
                   => OnlyUpTo(s2)

\* Redlib and PullPush failed every call, .json answered every call, and
\* collect_reddit has returned its items
C6_Witness ==
    /\ rpc = "done"
    /\ Called("redlib") /\ FailsAlways("redlib")
    /\ Called("pullpush") /\ FailsAlways("pullpush")
    /\ Called("direct") /\ SucceedsAlways("direct")
    /\ Len(result) = NumSubs

\* the strategy the probes of collect_reddit selected, crawl.py 684-704
Active ==
    IF api_available THEN (IF use_pullpush THEN "pullpush" ELSE "direct")
    ELSE IF <<"rss", "probe", TRUE>> \in listingCalls THEN "rss"
    ELSE "none"

\* the requests made for single subreddits after the probes of collect_reddit
LowerTargetCalls == targetCalls

CrawlWriting == {"save_data", "save_data_dump", "save_state", "save_state_dump"}

\* C8 as stated: if load_existing finds posts.json unreadable the cycle
\* goes no further: merge_posts is not applied and neither file is written.
C8_AbortOnUnreadableStore ==
    (loadFailed /\ nDigests = 0) =>
        /\ cpc \notin CrawlWriting
        /\ postsFile = storeAtStart
        /\ stateFile = stateAtStart

\* C9 as stated: when a crawl cycle has ended, by its last step or by
\* stopping early, posts.json and crawl_state.json are both what they were
\* when the cycle started or both what the cycle computed.
C9_BothOrNeither ==
    (cpc = "idle" /\ nCycles >= 1 /\ nDigests = 0) =>
        \/ postsFile = storeAtStart /\ stateFile = stateAtStart
        \/ postsFile = Dumped(c_merged) /\ stateFile = Dumped(NextState(c_state, nCycles))

\* C10 as stated: between a process's read of posts.json and its own write
\* of it, the other process does not write the file.
C10_NoWriteBetweenReadAndWrite ==
    /\ cpc \in {"merge", "save_data"} => storeWrites = cReadAt
    /\ dpc \in {"summarize", "send", "clear_data"} => storeWrites = dReadAt

(***************************************************************************)
(* Properties of the digest run.                                           *)
(***************************************************************************)
\* C11 as stated: if the classification call or any summary batch failed,
\* clear_data is not called and posts.json keeps the posts that were loaded.
C11_ClearOnlyOnFullSuccess ==
    failures > 0 =>
        /\ ~cleared
        /\ gpc # "clear_data"
        /\ stored = { loaded[i] : i \in 1..Len(loaded) }

(***************************************************************************)
(* Properties of the schedule.                                             *)
(***************************************************************************)
CalledIn(i, collector) ==
    \E k \in DOMAIN cycleLog[i].calls : cycleLog[i].calls[k] = collector

\* C12: over completed crawl cycles, Reddit is collected in exactly the cycles
\* that loaded a run_count that is a multiple of REDDIT_EVERY_N, so in the
\* first cycle and in exactly one of every REDDIT_EVERY_N consecutive cycles;
\* the fast sources (HN and RSS) are collected in every cycle.
C12_RedditEveryNthCycle ==
    /\ \A i \in DOMAIN cycleLog :
         /\ CalledIn(i, "collect_reddit") <=> cycleLog[i].loaded % RedditEveryN = 0
         /\ CalledIn(i, "collect_fast")
    /\ cycleLog # <<>> => CalledIn(1, "collect_reddit")
    /\ \A i \in DOMAIN cycleLog :
         i + RedditEveryN - 1 <= Len(cycleLog) =>
             Cardinality({ j \in i..(i + RedditEveryN - 1) :
                             CalledIn(j, "collect_reddit") }) = 1

C12_Witness ==
    /\ Len(cycleLog) >= 2 * RedditEveryN + 1
    /\ CalledIn(RedditEveryN + 1, "collect_reddit")
    /\ CalledIn(2 * RedditEveryN + 1, "collect_reddit")
    /\ ~CalledIn(RedditEveryN, "collect_reddit")

\* C13 as stated: the persisted run_count never decreases, also over cycles
\* that find or leave the state file unreadable: whenever crawl.main is not
\* running, the run_count read from crawl_state.json is at least the one that
\* was readable there when the last cycle started.
C13_RunCountNeverDecreases ==
    (cpc = "idle" /\ stateAtStart.status = "ok") =>
        load_state(stateFile).run_count >= stateAtStart.data.run_count

(***************************************************************************)
(* Further properties of merge_posts.                                      *)
(***************************************************************************)
\* the places of id in batch B
Occ(B, id) == { i \in 1..Len(B) : B[i].id = id }

\* ids that were in the store and occur exactly once in the last batch
UpdatedOnce == { id \in DOMAIN prevStore.posts : Cardinality(Occ(lastBatch, id)) = 1 }

Incoming(id) == lastBatch[CHOOSE i \in Occ(lastBatch, id) : TRUE]

\* C14: over merge_posts calls on one store, a record's score after a merge
\* is at least its score before the merge, and likewise its comment count.
C14_ScoreAndCommentsNeverDecrease ==
    \A id \in DOMAIN prevStore.posts :
        /\ id \in DOMAIN store.posts
        /\ store.posts[id].score >= prevStore.posts[id].score
        /\ store.posts[id].comments >= prevStore.posts[id].comments

\* a record has been merged with an observation of lower score and lower
\* comment count
C14_Witness ==
    \E id \in UpdatedOnce :
        /\ Incoming(id).score < prevStore.posts[id].score
        /\ Incoming(id).comments < prevStore.posts[id].comments
        /\ store.posts[id].seen_count > prevStore.posts[id].seen_count

\* C15: merging a batch that holds an item whose id is in the store gives
\* that record the larger of the two scores, the larger of the two comment
\* counts and the old seen_count plus one.
C15_UpdateRule ==
    \A id \in UpdatedOnce :
        /\ store.posts[id].score = Max(prevStore.posts[id].score, Incoming(id).score)
        /\ store.posts[id].comments =
              Max(prevStore.posts[id].comments, Incoming(id).comments)
        /\ store.posts[id].seen_count = prevStore.posts[id].seen_count + 1

\* the store {hn_1: score 10, seen_count 1} has been merged with [{hn_1,
\* score 7}] and holds score 10, seen_count 2
C15_Witness ==
    /\ "hn_1" \in DOMAIN prevStore.posts
    /\ prevStore.posts["hn_1"].score = 10
    /\ prevStore.posts["hn_1"].seen_count = 1
    /\ Len(lastBatch) = 1
    /\ lastBatch[1].id = "hn_1"
    /\ lastBatch[1].score = 7
    /\ store.posts["hn_1"].score = 10
    /\ store.posts["hn_1"].seen_count = 2

Elems(s) == { s[i] : i \in 1..Len(s) }
Keys(s) == { BodyKey(s[i]) : i \in 1..Len(s) }

\* result is the union of the comments old and new, deduplicated by the first
\* PrefixLen characters of the body, sorted by score descending and cut to TopN
IsDedupSortedTop(merged_comments, old, new) ==
    LET union == Elems(old) \cup Elems(new)
        keys  == { BodyKey(c) : c \in union }
    IN /\ Elems(merged_comments) \subseteq union
       /\ \A i, j \in 1..Len(merged_comments) :
            i # j => BodyKey(merged_comments[i]) # BodyKey(merged_comments[j])
       /\ IsSortedDesc(merged_comments)
       /\ Len(merged_comments) = Min(Cardinality(keys), TopN)
       /\ \A k \in keys \ Keys(merged_comments) :
            \E c \in union :
                /\ BodyKey(c) = k
                /\ c.score <= merged_comments[Len(merged_comments)].score

\* C16: when an incoming item with non-empty top_comments is merged into an
\* existing record, the record's top_comments become the union of the old
\* and the incoming comments, deduplicated by the first 50 characters of the
\* body, sorted by score descending and cut to 3; comment a (score 1) merged
\* with comment b (score 9) gives the order [b, a].
C16_CommentsUnionDedupSortedTop3 ==
    \A id \in UpdatedOnce :
        GetTopComments(Incoming(id)) # <<>> =>
            /\ IsDedupSortedTop(GetTopComments(store.posts[id]),
                                GetTopComments(prevStore.posts[id]),
                                GetTopComments(Incoming(id)))
            /\ ( /\ GetTopComments(prevStore.posts[id]) = <<[body |-> "a", score |-> 1]>>
                 /\ GetTopComments(Incoming(id)) = <<[body |-> "b", score |-> 9]>> )
               => GetTopComments(store.posts[id]) =
                     <<[body |-> "b", score |-> 9], [body |-> "a", score |-> 1]>>

\* a record holding comment a has been merged with an item holding comment b
C16_Witness ==
    \E id \in UpdatedOnce :
        /\ GetTopComments(prevStore.posts[id]) = <<[body |-> "a", score |-> 1]>>
        /\ GetTopComments(Incoming(id)) = <<[body |-> "b", score |-> 9]>>
        /\ GetTopComments(store.posts[id]) =
              <<[body |-> "b", score |-> 9], [body |-> "a", score |-> 1]>>

\* a record has been merged with comments of which one shares its first 50
\* characters with a comment the record held, and a fourth comment was cut
C16_WitnessDedup ==
    \E id \in UpdatedOnce :
        LET old == GetTopComments(prevStore.posts[id])
            new == GetTopComments(Incoming(id))
        IN /\ Keys(old) \cap Keys(new) # {}
           /\ Cardinality(Keys(old) \cup Keys(new)) > TopN

\* the fields of the records the claims on merge_posts compare
SameRecords(s1, s2) ==
    /\ DOMAIN s1.posts = DOMAIN s2.posts
    /\ \A id \in DOMAIN s1.posts :
         /\ s1.posts[id].score = s2.posts[id].score
         /\ s1.posts[id].comments = s2.posts[id].comments
         /\ s1.posts[id].seen_count = s2.posts[id].seen_count
         /\ s1.posts[id].thumbnail = s2.posts[id].thumbnail
         /\ GetTopComments(s1.posts[id]) = GetTopComments(s2.posts[id])

\* C17 as stated: merge_posts is commutative over batches: for the store S
\* before the last merge, the batch A of that merge and every batch B of one
\* item, merging A then B gives for every id the same score, comment count,
\* seen_count, thumbnail and top_comments as merging B then A.
C17_MergeCommutes ==
    \A B \in Batches(1) :
        SameRecords(merge_posts(store, B, clock + 1),
                    merge_posts(merge_posts(prevStore, B, clock), lastBatch, clock + 1))

\* C18 as stated: a record's seen_count is at least 1 and grows by exactly
\* one per cycle (one merge_posts call) that observed the item, however many
\* times the id occurs in that cycle's batch.
C18_SeenCountOncePerCycle ==
    \A id \in DOMAIN store.posts :
        /\ store.posts[id].seen_count >= 1
        /\ store.posts[id].seen_count =
              (IF id \in DOMAIN prevStore.posts
               THEN prevStore.posts[id].seen_count ELSE 0)
              + (IF id \in IdsOf(lastBatch) THEN 1 ELSE 0)

(***************************************************************************)
(* Properties of the Redlib instance switch.                               *)
(***************************************************************************)
\* C19 as stated: a switch probes only instances not yet tried in this cycle:
\* an instance whose probe failed earlier in the cycle (in the initial search
\* or in an earlier switch) is not probed again; and the probes of one switch
\* follow the order of REDLIB_INSTANCES.
C19_SwitchProbesOnlyUntried ==
    \A j \in DOMAIN probeLog :
        probeLog[j].switch =>
            /\ \A i \in 1..(j - 1) :
                 probeLog[i].inst = probeLog[j].inst => probeLog[i].ok
            /\ (j > 1 /\ probeLog[j - 1].switch /\ ~probeLog[j - 1].ok) =>
                 probeLog[j - 1].inst < probeLog[j].inst

\* C20: an instance that has been the working instance is taken off the
\* remaining instances: after the switch away from it, it is never probed or
\* selected again, so the fetches of one instance are one unbroken run.
C20_ActiveOnceOnly ==
    /\ \A i, j \in DOMAIN probeLog :
         (i < j /\ probeLog[i].ok) => probeLog[j].inst # probeLog[i].inst
    /\ \A i, j \in DOMAIN respLog :
         (i < j /\ respLog[i].inst = respLog[j].inst) =>
             \A k \in i..j : respLog[k].inst = respLog[i].inst
    /\ rpc \in {"rl_fetch", "rl_switch"} =>
         /\ \A i \in DOMAIN probeLog :
              probeLog[i].ok =>
                  \A k \in DOMAIN remaining_instances :
                      remaining_instances[k] # probeLog[i].inst
         /\ \A k \in DOMAIN remaining_instances : remaining_instances[k] # working

\* the working instance has been replaced twice: the second switch came
\* after the first working instance had been switched away from
C20_Witness ==
    /\ nSwitches >= 2
    /\ rpc = "rl_fetch"
    /\ Len(respLog) >= 2 * MaxConsecutiveFails

\* C21: in fetch_reddit_redlib consecutive_fails is raised by one by each
\* subreddit fetch that returns nothing and set to 0 by a fetch that returns
\* posts and by a switch that finds an instance, so it is the number of
\* subreddit fetches that failed since the last success or switch.
C21_FailCounterCountsFailures ==
    rpc \in {"rl_fetch", "rl_switch", "cr_redlib_done"} /\ working # 0 =>
        consecutive_fails = TrailingEmpty(respLog, working)

\* the counter has been reset by a success after a failure and by a switch,
\* and counts a failure again
C21_Witness ==
    /\ rpc = "rl_fetch"
    /\ nSwitches >= 1
    /\ consecutive_fails >= 1
    /\ \E i \in 1..(Len(respLog) - 1) : respLog[i].n = 0 /\ respLog[i + 1].n > 0

(***************************************************************************)
(* Further properties of collect_reddit.                                   *)
(***************************************************************************)
AllProbesFailed == \A c \in listingCalls : c[2] = "probe" => ~c[3]

FastBatches == {<<>>, <<HNPost>>, <<RSSPost>>, <<HNPost, RSSPost>>}

RequestedInStep ==
    (IF Len(probeLog') > Len(probeLog) THEN {probeLog'[Len(probeLog')].inst} ELSE {})
        \cup (IF Len(respLog') > Len(respLog) THEN {respLog'[Len(respLog')].inst} ELSE {})

\* C23 as stated: between any two successive requests to the same Redlib
\* instance, the probe followed by the first subreddit fetch included, a
\* pacing wait is made: no request goes to an instance that has been
\* requested and not slept after.
C23_PacedRequests ==
    [][\A i \in RequestedInStep : pacedSince[i] # "fresh"]_vars

(***************************************************************************)
(* Properties of the item ids.                                             *)
(***************************************************************************)
\* C24 as stated: two fetches of the same content give the same id, also in
\* two process invocations and through different strategies.
C24_SameContentSameId ==
    \A a, b \in idLog : a.content = b.content => a.id = b.id

(***************************************************************************)
(* Properties of merge_posts: first_seen, thumbnail, last_crawl.           *)
(***************************************************************************)
\* C25: merge_posts inserts an id that is not in the store with seen_count 1
\* and first_seen = the time of the merge, and a merge of an id that is in
\* the store leaves its first_seen as it is.
C25_FirstSeenSetOnce ==
    \A id \in DOMAIN store.posts :
        IF id \in DOMAIN prevStore.posts
        THEN store.posts[id].first_seen = prevStore.posts[id].first_seen
        ELSE /\ store.posts[id].first_seen = store.last_crawl
             /\ Cardinality(Occ(lastBatch, id)) = 1 => store.posts[id].seen_count = 1

\* an id that one merge inserted with seen_count 1 has been merged again at
\* a later time
C25_Witness ==
    \E id \in (DOMAIN prevStore.posts) \cap IdsOf(lastBatch) :
        /\ prevStore.posts[id].seen_count = 1
        /\ prevStore.posts[id].first_seen = prevStore.last_crawl
        /\ store.posts[id].seen_count = 2
        /\ store.posts[id].first_seen < store.last_crawl

\* every occurrence of id in B carries an empty thumbnail
NoThumbnailFor(B, id) == \A i \in Occ(B, id) : B[i].thumbnail = ""

\* C26: a merge writes a record's thumbnail only while it is empty: a
\* non-empty thumbnail is never changed, and a merge whose items carry an
\* empty thumbnail changes none.
C26_ThumbnailFilledOnlyIfEmpty ==
    \A id \in DOMAIN prevStore.posts :
        (prevStore.posts[id].thumbnail # "" \/ NoThumbnailFor(lastBatch, id)) =>
            store.posts[id].thumbnail = prevStore.posts[id].thumbnail

\* a record with a thumbnail has been merged with an item carrying another
\* thumbnail
C26_Witness ==
    \E id \in UpdatedOnce :
        /\ prevStore.posts[id].thumbnail # ""
        /\ Incoming(id).thumbnail # ""
        /\ Incoming(id).thumbnail # prevStore.posts[id].thumbnail
        /\ store.posts[id].seen_count = prevStore.posts[id].seen_count + 1

\* C27: every merge_posts call sets last_crawl to the time of the merge, also
\* when the batch is empty or changes no record.
C27_LastCrawlAlwaysSet ==
    clock >= 1 => store.last_crawl = clock /\ store.last_crawl > prevStore.last_crawl

\* an empty batch has been merged into a store that holds a record
C27_Witness ==
    /\ clock >= 2
    /\ lastBatch = <<>>
    /\ store.posts = prevStore.posts
    /\ DOMAIN store.posts # {}
    /\ store.last_crawl = clock

(***************************************************************************)
(* Properties of the comment enrichment.                                   *)
(***************************************************************************)
\* the places, in the list of posts, of the posts a comment request was made for
Attempted == { c[2] : c \in commentCalls }

\* C28: the enrichment requests comments for at most 30 posts, and these are
\* the highest scored: every post with a request has a score at least that
\* of every post without.
C28_EnrichesTop30ByScore ==
    rpc = "done" =>
        /\ Cardinality(Attempted) <= EnrichTop
        /\ \A i \in Attempted : \A j \in (1..Len(result)) \ Attempted :
             result[i].score >= result[j].score

\* the enrichment was given more than 30 posts and requested comments for 30
C28_Witness ==
    /\ rpc = "done"
    /\ Len(result) > EnrichTop
    /\ Cardinality(Attempted) = EnrichTop
    /\ \E i \in Attempted : \E j \in (1..Len(result)) \ Attempted :
         i > j /\ result[i].score > result[j].score

\* a PullPush or .json probe of this cycle returned posts
ApiProbeOk ==
    \E strat \in {"pullpush", "direct"} : <<strat, "probe", TRUE>> \in listingCalls

\* C29: comment requests are made only in a cycle in which a PullPush or
\* .json probe returned posts; when none did (the .rss feed alone, or no API
\* probe, succeeded) no comment request is made and every returned post has
\* empty top_comments.
C29_EnrichmentOnlyWithApiProbe ==
    /\ commentCalls # {} => ApiProbeOk
    /\ (rpc = "done" /\ ~ApiProbeOk) =>
          \A i \in 1..Len(result) : result[i].top_comments = <<>>

\* collect_reddit returned posts of the .rss feed after both API probes failed
C29_Witness ==
    /\ rpc = "done"
    /\ Active = "rss"
    /\ ~ApiProbeOk
    /\ result # <<>>
    /\ commentCalls = {}

\* collect_reddit returned Redlib posts after both probes of the enrichment failed
C29_WitnessRedlib ==
    /\ rpc = "done"
    /\ redlib_posts # <<>>
    /\ <<"direct", "probe", FALSE>> \in listingCalls
    /\ ~ApiProbeOk
    /\ commentCalls = {}

\* the posts the enrichment selected, as places in the list of posts
Selected == { top[j] : j \in 1..Len(top) }

\* C30: a comment request that fails does not end the collection: the
\* collection returns, the post of the failed request has empty top_comments,
\* a comment request was made for every selected post, and as many posts are
\* returned as were fetched.
C30_CommentFailureNonFatal ==
    raised # 0 =>
        /\ rpc = "done"
        /\ Attempted = Selected
        /\ Len(result) = Len(redlib_posts) + Len(all_posts)
        /\ result[top[raised]].top_comments = <<>>

(***************************************************************************)
(* Properties of load_and_rank and of the digest run around it.            *)
(***************************************************************************)
\* the places in rk_posts of the posts of Hacker News, of Reddit, of the feeds
RankedHn == { i \in 1..Len(rk_posts) : rk_posts[i].source = HackerNews }
RankedReddit == { i \in 1..Len(rk_posts) : rk_posts[i].source \in RedditSources }
RankedFeeds == (1..Len(rk_posts)) \ (RankedHn \cup RankedReddit)

SameGroup(a, b) ==
    \/ a = HackerNews /\ b = HackerNews
    \/ a \in RedditSources /\ b \in RedditSources
    \/ a \notin RedditSources \cup {HackerNews} /\ b \notin RedditSources \cup {HackerNews}

Trend(p) == p.score + 2 * p.comments + 50 * p.seen_count

RankedIds == { rk_posts[i].id : i \in 1..Len(rk_posts) }

\* C31: the list load_and_rank returns holds at most 50 posts of each source
\* group, the posts of a group it holds have a trend score at least that of
\* every post of the group it leaves out, and it is sorted by trend score,
\* highest first; the trend score is score + 2 * comments + 50 * seen_count.
C31_RankedBalancedSelection ==
    kpc \notin {"start", "load_and_rank"} =>
        /\ Cardinality(RankedHn) <= 50
        /\ Cardinality(RankedReddit) <= 50
        /\ Cardinality(RankedFeeds) <= 50
        /\ \A i \in 1..Len(rk_posts) :
             /\ rk_posts[i].trend_score = Trend(rk_posts[i])
             /\ \E j \in 1..Len(rk_input) :
                  /\ rk_input[j].id = rk_posts[i].id
                  /\ rk_input[j].source = rk_posts[i].source
                  /\ Trend(rk_input[j]) = Trend(rk_posts[i])
        /\ LET left_out == { j \in 1..Len(rk_input) : rk_input[j].id \notin RankedIds }
           IN \A i \in 1..Len(rk_posts) : \A j \in left_out :
                SameGroup(rk_input[j].source, rk_posts[i].source)
                => Trend(rk_posts[i]) >= Trend(rk_input[j])
        /\ \A i \in 1..(Len(rk_posts) - 1) :
             Trend(rk_posts[i]) >= Trend(rk_posts[i + 1])
        /\ Cardinality(RankedIds) = Len(rk_posts)

\* every group was over the cap: 50 posts of each are returned, and a post
\* left out has a higher score than one that is returned
C31_Witness ==
    /\ kpc = "classify_and_summarize"
    /\ Cardinality(RankedHn) = 50
    /\ Cardinality(RankedReddit) = 50
    /\ Cardinality(RankedFeeds) = 50
    /\ Len(rk_input) > 150
    /\ LET left_out == { j \in 1..Len(rk_input) : rk_input[j].id \notin RankedIds }
       IN \E i \in 1..Len(rk_posts) : \E j \in left_out :
            /\ SameGroup(rk_input[j].source, rk_posts[i].source)
            /\ rk_input[j].score > rk_posts[i].score

\* C37: every post clear_data erases from posts.json was in the list
\* load_and_rank returned in the same digest run.
C37_ErasedWereOffered == \A id \in rk_erased : id \in RankedIds

(***************************************************************************)
(* Properties of fetch_reddit_redlib over cycles and inside one cycle.     *)
(***************************************************************************)
\* the probes of _redlib_find_working_instance in this call
FindProbes == LET find(r) == ~r.switch IN SelectSeq(probeLog, find)

\* the instances whose probe returned posts in this call, in the order of the probes
FoundInstances ==
    LET found(r) == r.ok IN
    LET oks == SelectSeq(probeLog, found) IN [i \in 1..Len(oks) |-> oks[i].inst]

\* C32: a call of fetch_reddit_redlib keeps nothing of the call before: it
\* probes the instances from the first on in the order of the list, enters
\* its loop with consecutive_fails = 0 and with every other instance as a
\* fallback, and its working instance is the last one whose probe returned
\* posts in this call, whichever instance the call before ended with and
\* whether or not that call had run out of instances.
C32_BreakerStateNotKept ==
    /\ \A j \in 1..Len(FindProbes) :
         /\ FindProbes[j].inst = j
         /\ j < Len(FindProbes) => ~FindProbes[j].ok
    /\ rpc = "rl_find" => (working = 0 /\ ~exhausted /\ inst_i = Len(probeLog) + 1)
    /\ (rpc = "rl_fetch" /\ respLog = <<>>) =>
         /\ consecutive_fails = 0
         /\ remaining_instances = Without([i \in Instances |-> i], working)
    /\ rpc \in {"rl_fetch", "rl_switch"} =>
         /\ FoundInstances # <<>>
         /\ working = FoundInstances[Len(FoundInstances)]
    /\ exhausted => rpc = "cr_redlib_done"

\* the call before ended on the second instance with no instance left; this
\* call found the first instance working
C32_Witness ==
    /\ earlier.any
    /\ earlier.exhausted
    /\ earlier.working = 2
    /\ rpc = "rl_fetch"
    /\ working = 1

\* C33: in one call of fetch_reddit_redlib every subreddit is fetched at most
\* once: the fetches go through the subreddits in order, and a subreddit
\* whose fetch returned nothing is not fetched again, neither from the same
\* instance nor from the instance a later switch selected.
C33_EachTargetFetchedOnce ==
    /\ \A i, j \in DOMAIN respLog : i < j => respLog[i].sub < respLog[j].sub
    /\ \A i \in DOMAIN respLog : respLog[i].sub \in 1..subreddits

\* a subreddit returned nothing, the instance was switched, and the fetches
\* went on with the next subreddit on the new instance
C33_Witness ==
    /\ nSwitches >= 1
    /\ \E i \in 1..(Len(respLog) - 1) :
         /\ respLog[i].n = 0
         /\ respLog[i + 1].inst # respLog[i].inst
         /\ respLog[i + 1].sub = respLog[i].sub + 1

\* probes one call can make at most: the search probes each instance once,
\* and every switch that finds an instance leaves one instance fewer to probe
MostProbes == (NumInstances * (NumInstances + 1)) \div 2

\* C34: every call of fetch_reddit_redlib returns, whatever the instances
\* answer: it makes at most one fetch per subreddit and a bounded number of
\* probes, each switch that finds an instance takes one off the remaining
\* instances, and a switch that finds none ends the loop.
C34_RedlibTerminates ==
    /\ <>(rpc = "cr_redlib_done")
    /\ [](/\ Len(respLog) <= subreddits
          /\ Len(probeLog) <= MostProbes
          /\ rpc \in {"rl_fetch", "rl_switch"} =>
                Len(remaining_instances) = NumInstances - 1 - nSwitches
          /\ exhausted => rpc = "cr_redlib_done")

\* a call that returned after a switch and then a switch that found no
\* instance, with subreddits left unfetched
C34_Witness ==
    /\ rpc = "cr_redlib_done"
    /\ exhausted
    /\ nSwitches >= 1
    /\ Len(respLog) < subreddits
    /\ Len(probeLog) >= NumInstances

\* the search of _redlib_find_working_instance has returned
SearchReturned == rpc \in {"rl_fetch", "rl_switch", "cr_redlib_done"}

\* C36: _redlib_find_working_instance returns the first instance of the list
\* whose probe returns posts: it has probed every instance before it once,
\* all without posts, and no instance after it; it returns None only when
\* the probe of every instance returned nothing.
C36_FirstWorkingInstance ==
    SearchReturned =>
        /\ Len(FindProbes) \in 1..NumInstances
        /\ \A j \in 1..Len(FindProbes) : FindProbes[j].inst = j
        /\ \A j \in 1..(Len(FindProbes) - 1) : ~FindProbes[j].ok
        /\ ~FindProbes[Len(FindProbes)].ok => Len(FindProbes) = NumInstances
        /\ IF FindProbes[Len(FindProbes)].ok
           THEN FoundInstances[1] = Len(FindProbes)
           ELSE /\ working = 0
                /\ rpc = "cr_redlib_done"
                /\ respLog = <<>>
        /\ (respLog # <<>> /\ nSwitches = 0) => working = Len(FindProbes)

\* the search returned the last instance after the probes of all the others
\* had returned nothing
C36_Witness ==
    /\ rpc = "rl_fetch"
    /\ nSwitches = 0
    /\ working = NumInstances
    /\ Len(FindProbes) = NumInstances

(***************************************************************************)
(* Properties of the fallback of collect_reddit from Redlib.               *)
(***************************************************************************)
\* collect_reddit is past its Redlib stage, in the PullPush / .json / .rss stages
InLowerTiers ==
    rpc \in {"cr_probe_pullpush", "cr_probe_direct", "cr_probe_rss", "api_fetch",
             "rss_multi", "ea_loop"}

\* C35: collect_reddit turns to PullPush, .json and .rss exactly when Redlib
\* returned no post.  When Redlib returned a post, also after it ran out of
\* instances with subreddits unfetched, no subreddit is fetched through a
\* lower tier (the only lower-tier requests are the two probes of the
\* comment enrichment) and the Redlib posts are what is returned.
C35_FallbackIffRedlibEmpty ==
    /\ InLowerTiers => redlib_posts = <<>>
    /\ redlib_posts # <<>> =>
         /\ targetCalls = {}
         /\ \A c \in listingCalls :
              /\ c[1] # "rss"
              /\ c[1] \in {"pullpush", "direct"} => c[2] = "probe"
         /\ ~api_available
    /\ (rpc = "done" /\ redlib_posts # <<>>) => result = redlib_posts
    /\ (rpc \in {"done", "raised"} /\ redlib_posts = <<>>) =>
         \E ok \in BOOLEAN : <<"pullpush", "probe", ok>> \in listingCalls

\* Redlib ran out of instances after one subreddit with posts; collect_reddit
\* returned those posts and fetched no subreddit through a lower tier
C35_Witness ==
    /\ rpc = "done"
    /\ exhausted
    /\ redlib_posts # <<>>
    /\ Len(respLog) < NumSubs
    /\ \A i \in 1..Len(result) : result[i].sub = 1
    /\ targetCalls = {}

(***************************************************************************)
(* The frame of merge_posts.                                               *)
(***************************************************************************)
\* C38: merge_posts changes only the records whose id is in the batch: a
\* record whose id is not in the batch is left as it was, no id is removed,
\* and the ids after the merge are the ids before it and the ids of the batch.
C38_MergeFrame ==
    /\ DOMAIN store.posts = (DOMAIN prevStore.posts) \cup IdsOf(lastBatch)
    /\ \A id \in (DOMAIN prevStore.posts) \ IdsOf(lastBatch) :
         store.posts[id] = prevStore.posts[id]

\* a merge that inserted one id and left another, stored before, untouched
C38_Witness ==
    /\ (DOMAIN prevStore.posts) \ IdsOf(lastBatch) # {}
    /\ IdsOf(lastBatch) \ (DOMAIN prevStore.posts) # {}
    /\ store.last_crawl > prevStore.last_crawl

(***************************************************************************)
(* Properties of call_gemini.                                              *)
(***************************************************************************)
Retryable == {"429", "503", "timeout"}

LastResponse == responses[Len(responses)]

\* C39: call_gemini ends after at most max_retries = 3 requests: it returns
\* at once on HTTP 200, makes a further request only after a 429, a 503 or a
\* timeout and only while attempts remain, returns "" without a further
\* request on any other status, and returns "" when the last attempt fails.
C39_GeminiBoundedRetries ==
    /\ <>(qpc \in {"returned", "raised"})
    /\ [](/\ Len(responses) <= 3
          /\ \A i \in 1..(Len(responses) - 1) : responses[i] \in Retryable
          /\ qpc = "request" => (Len(responses) < 3 /\ attempt = Len(responses))
          /\ qpc = "returned" =>
                /\ text_out = (IF LastResponse = "200" THEN "text" ELSE "")
                /\ LastResponse \in Retryable => Len(responses) = 3
          /\ qpc = "raised" => LastResponse = "error")

\* two attempts were retried and the third failed too: "" is returned
C39_Witness ==
    /\ qpc = "returned"
    /\ Len(responses) = 3
    /\ responses[1] = "429"
    /\ responses[2] = "timeout"
    /\ responses[3] = "503"
    /\ text_out = ""

(***************************************************************************)
(* The time stamps of the run state.                                       *)
(***************************************************************************)
\* C40: a completed crawl cycle always sets last_run to its own time, and
\* sets last_reddit if and only if it collected Reddit; a cycle that skips
\* Reddit leaves last_reddit as it loaded it.  The state saved is the state
\* the next cycle loads.
C40_LastRunAndLastReddit ==
    /\ \A i \in DOMAIN cycleLog :
         /\ cycleLog[i].after.last_run = i
         /\ cycleLog[i].after.last_run # cycleLog[i].before.last_run
         /\ CalledIn(i, "collect_reddit") => cycleLog[i].after.last_reddit = i
         /\ ~CalledIn(i, "collect_reddit") =>
               cycleLog[i].after.last_reddit = cycleLog[i].before.last_reddit
         /\ i > 1 => cycleLog[i].before = cycleLog[i - 1].after
    /\ (cycleLog # <<>> /\ spc = "load_state") =>
         schedFile = Dumped(cycleLog[Len(cycleLog)].after)

\* the eighth cycle skipped Reddit and kept the stamp of the first; the
\* ninth collected Reddit and stamped it
C40_Witness ==
    /\ Len(cycleLog) >= RedditEveryN + 1
    /\ cycleLog[RedditEveryN].after.last_reddit = 1
    /\ cycleLog[RedditEveryN].after.last_run = RedditEveryN
    /\ cycleLog[RedditEveryN + 1].after.last_reddit = RedditEveryN + 1

====
